---- MODULE Spec2Model ----
(***************************************************************************)
(* StockFlow gapper screener: the Polygon fetch clients (req, poly_get,    *)
(* api_get, get_json) and the session resolver of daily_ai_score.main.     *)
(*                                                                         *)
(* Durations are in milliseconds.  Prices are in cents and volumes in      *)
(* shares; percentages and ratios are fixed point with SCALE units per 1.  *)
(***************************************************************************)
EXTENDS Integers, Sequences, FiniteSets, TLC

(***************************************************************************)
(* Bounds of the model                                                     *)
(***************************************************************************)
NumTickers == 2
MAX_TICKERS == 2
MaxCloses == 16
MaxDaily == 15

(***************************************************************************)
(* Program constants                                                       *)
(***************************************************************************)
MAX_RETRIES == 8
BASE_SLEEP == 1000
MAX_SLEEP == 30000
ReqMaxRetries == 5
ReqBackoffBase == 750
PolyGetRetries == 5
PolyGetBackoffBase == 800
GetJsonStopAfterAttempt == 6
GetJsonWaitMultiplier == 750
GetJsonWaitMin == 1000
GetJsonWaitMax == 40000
roll == 14
SCALE == 100

Min(a, b) == IF a <= b THEN a ELSE b
Max(a, b) == IF a >= b THEN a ELSE b

RECURSIVE Pow2(_)
Pow2(n) == IF n <= 0 THEN 1 ELSE 2 * Pow2(n - 1)

(***************************************************************************)
(* Provider responses.  status 0 stands for requests.RequestException      *)
(* raised by the GET itself; retryAfter is the Retry-After header          *)
(* ("" absent, digits = seconds, "soon" not a number); json tells whether  *)
(* the body of a 200 parses.                                               *)
(***************************************************************************)
RequestError == 0
Statuses == {200, 429, 502, 503, 504, 400, 401, 403, 404, 500, 302}
RetryAfterHeaders == {"", "2", "45", "soon"}
JitterFactors == {500, 1000, 1499}

Responses ==
    [status : {200}, retryAfter : {""}, json : BOOLEAN]
    \cup [status : {429, 502, 503, 504}, retryAfter : RetryAfterHeaders, json : {FALSE}]
    \cup [status : (Statuses \ {200, 429, 502, 503, 504}) \cup {RequestError},
          retryAfter : {""}, json : {FALSE}]

Clients == {"req", "poly_get", "api_get", "get_json"}

VARIABLES call, fallback, idx, world, mpc, calls, part, built, exitStatus, run

vars == <<call, fallback, idx, world, mpc, calls, part, built, exitStatus, run>>
mvars == <<fallback, idx, world, mpc, calls, part, built, exitStatus, run>>

(***************************************************************************)
(* One call of a fetch client.  attempt = requests issued so far, last =    *)
(* the latest response,                                                    *)
(* lead429 = number of responses so far when all of them were 429 (else    *)
(* frozen), mono = every sleep so far was strictly longer than the one     *)
(* before it or was at the client's cap.                                   *)
(***************************************************************************)
NoResponse == [status |-> -1, retryAfter |-> "", json |-> FALSE]

IdleCall ==
    [fn |-> "none", pc |-> "idle", attempt |-> 0, last |-> NoResponse,
     nSleeps |-> 0, lastSleep |-> 0, lead429 |-> 0, mono |-> TRUE,
     result |-> "", exc |-> <<"", 0>>]

NewCall(f) == [IdleCall EXCEPT !.fn = f, !.pc = "running"]

\* the request of this iteration has been issued and answered by r
Issued(c, r) ==
    [c EXCEPT !.attempt = c.attempt + 1,
              !.last = r,
              !.lead429 = IF r.status = 429 /\ c.lead429 = c.attempt
                          THEN c.lead429 + 1 ELSE c.lead429]

\* time.sleep(ms); cap = 0 when the client has no cap
Slept(c, ms, cap) ==
    [c EXCEPT !.nSleeps = c.nSleeps + 1,
              !.lastSleep = ms,
              !.mono = c.mono /\ (c.nSleeps = 0 \/ ms > c.lastSleep \/ (cap > 0 /\ ms = cap))]

Returned(c, res) == [c EXCEPT !.pc = "returned", !.result = res]
Raised(c, msg, st) == [c EXCEPT !.pc = "raised", !.exc = <<msg, st>>]

(***************************************************************************)
(* req (build_candidates_from_polygon.py)                                  *)
(***************************************************************************)
ReqRetryable == {429, 502, 503}

ReqSleep(i) == Pow2(i) * ReqBackoffBase

ReqIter(c, r) ==
    LET i == c.attempt
        c1 == Issued(c, r)
    IN  IF r.status = RequestError THEN Raised(c1, "RequestException", 0)
        ELSE IF r.status = 200
             THEN IF r.json THEN Returned(c1, "body")
                  ELSE Raised(c1, "JSONDecodeError", 200)
        ELSE IF r.status \in ReqRetryable
             THEN LET c2 == Slept(c1, ReqSleep(i), 0)
                  IN  IF i + 1 < ReqMaxRetries THEN c2
                      ELSE Raised(c2, "Too many retries", 0)
        ELSE Raised(c1, "Polygon error", r.status)

(***************************************************************************)
(* poly_get, backoff_sleep (daily_ai_score.py)                             *)
(***************************************************************************)
PolyGetRetryable == {429, 502, 503, 504}

backoff_sleep_flat(i) == PolyGetBackoffBase

backoff_sleep(i) == PolyGetBackoffBase * Pow2(i)

PolyGetIter(c, r) ==
    LET i == c.attempt
        c1 == Issued(c, r)
    IN  IF r.status = RequestError THEN Raised(c1, "RequestException", 0)
        ELSE IF r.status = 200
             THEN IF r.json THEN Returned(c1, "body")
                  ELSE Raised(c1, "JSONDecodeError", 200)
        ELSE IF r.status \in PolyGetRetryable
             THEN LET c2 == Slept(c1, backoff_sleep(i), 0)
                  IN  IF i + 1 < PolyGetRetries THEN c2
                      ELSE Raised(c2, "Too many retries", 0)
        ELSE Raised(c1, "Polygon error", r.status)

(***************************************************************************)
(* api_get, with_jitter (make_training_from_polygon.py)                    *)
(***************************************************************************)
ApiGetRetryable == {429, 503, 502, 504}

\* seconds * (0.5 + random.random()), j = the factor in thousandths
with_jitter(ms, j) == (ms * j) \div 1000

ApiGetBackoff(attempt, j) ==
    Min(MAX_SLEEP, with_jitter(BASE_SLEEP * Pow2(attempt - 1), j))

\* float(retry_after), BASE_SLEEP on ValueError
RetryAfterSleep(h) ==
    IF h = "2" THEN 2000 ELSE IF h = "45" THEN 45000 ELSE BASE_SLEEP

ApiGetRetrySleep(attempt, h, j) ==
    IF h # "" THEN RetryAfterSleep(h) ELSE ApiGetBackoff(attempt, j)

ApiGetExhaustedLate(attempt) == attempt > MAX_RETRIES

ApiGetExhaustedNever(attempt) == FALSE

ApiGetExhausted(attempt) == attempt >= MAX_RETRIES

ApiGetIter(c, r, j) ==
    LET c1 == Issued(c, r)
        attempt == c1.attempt
    IN  IF r.status = RequestError
        THEN IF ApiGetExhausted(attempt) THEN Returned(c1, "None")
             ELSE Slept(c1, ApiGetBackoff(attempt, j), MAX_SLEEP)
        ELSE IF r.status = 200
             THEN IF r.json THEN Returned(c1, "body") ELSE Returned(c1, "None")
        ELSE IF r.status \in ApiGetRetryable
             THEN IF ApiGetExhausted(attempt) THEN Returned(c1, "None")
                  ELSE Slept(c1, ApiGetRetrySleep(attempt, r.retryAfter, j), MAX_SLEEP)
        ELSE IF r.status = 400 THEN Returned(c1, "None")
        ELSE IF 400 <= r.status /\ r.status < 500 THEN Returned(c1, "None")
        ELSE IF ApiGetExhausted(attempt) THEN Returned(c1, "None")
        ELSE Slept(c1, ApiGetBackoff(attempt, j), MAX_SLEEP)

\* minute_aggs_one_day / daily_aggs: what the caller of api_get receives
AggsResults(data, results) == IF data = "None" THEN <<>> ELSE results

(***************************************************************************)
(* get_json under tenacity's @retry (score_today_from_polygon.py)          *)
(***************************************************************************)
\* the responses for which get_json raises HttpError
GetJsonHttpError(status) == status >= 500 \/ status = 429 \/ status >= 400

\* wait_exponential(multiplier=0.75, min=1, max=40) before attempt n + 1
GetJsonWait(n) ==
    Max(GetJsonWaitMin, Min(GetJsonWaitMultiplier * Pow2(n - 1), GetJsonWaitMax))

GetJsonIter(c, r) ==
    LET c1 == Issued(c, r)
    IN  IF r.status = RequestError THEN Raised(c1, "RequestException", 0)
        ELSE IF GetJsonHttpError(r.status)
             THEN IF c1.attempt >= GetJsonStopAfterAttempt
                  THEN Raised(c1, "HttpError", r.status)
                  ELSE Slept(c1, GetJsonWait(c1.attempt), GetJsonWaitMax)
        ELSE IF r.json THEN Returned(c1, "body")
        ELSE Raised(c1, "JSONDecodeError", r.status)

\* the number of requests one call may issue
Limit(f) ==
    CASE f = "req" -> ReqMaxRetries
      [] f = "poly_get" -> PolyGetRetries
      [] f = "api_get" -> MAX_RETRIES
      [] f = "get_json" -> GetJsonStopAfterAttempt
      [] OTHER -> 0

(***************************************************************************)
(* Actions of the fetch clients: one loop iteration each                   *)
(***************************************************************************)
BeginCall ==
    /\ call.pc = "idle"
    /\ mpc = "off"
    /\ \E f \in Clients : call' = NewCall(f)
    /\ UNCHANGED mvars

ReqStep ==
    /\ call.fn = "req" /\ call.pc = "running"
    /\ \E r \in Responses : call' = ReqIter(call, r)
    /\ UNCHANGED mvars

PolyGetStep ==
    /\ call.fn = "poly_get" /\ call.pc = "running"
    /\ \E r \in Responses : call' = PolyGetIter(call, r)
    /\ UNCHANGED mvars

ApiGetStep ==
    /\ call.fn = "api_get" /\ call.pc = "running"
    /\ \E r \in Responses, j \in JitterFactors : call' = ApiGetIter(call, r, j)
    /\ UNCHANGED mvars

GetJsonStep ==
    /\ call.fn = "get_json" /\ call.pc = "running"
    /\ \E r \in Responses : call' = GetJsonIter(call, r)
    /\ UNCHANGED mvars

\* the caller takes the result or the exception
EndCall ==
    /\ call.pc \in {"returned", "raised"}
    /\ mpc = "off"
    /\ call' = IdleCall
    /\ UNCHANGED mvars

\* what is known of the provider's bars for the ticker being processed
Unknown == [known |-> FALSE, n |-> 0, pat |-> "flat", hasToday |-> FALSE]
NoWorld == [minute |-> Unknown, daily |-> Unknown]

MainOff ==
    /\ fallback = FALSE
    /\ idx = 0
    /\ world = NoWorld
    /\ mpc = "off"
    /\ calls = <<>>
    /\ part = <<>>
    /\ built = <<>>
    /\ exitStatus = -1

\* no script of the second specification family is running
RunOff == [script |-> "off"]

InitFetch == call = IdleCall /\ MainOff /\ run = RunOff

NextFetch == BeginCall \/ ReqStep \/ PolyGetStep \/ ApiGetStep \/ GetJsonStep \/ EndCall

SpecFetch == InitFetch /\ [][NextFetch]_vars

(***************************************************************************)
(* Provider data of daily_ai_score.py.  A bar is [t, o, c, v] with t in    *)
(* milliseconds; day numbers stand for calendar dates.                     *)
(***************************************************************************)
DayMs == 86400000
MinuteMs == 60000
Today == 20
NaN == -1000000

TickerNames == <<"AAPL", "AMD", "NVDA", "TSLA">>

\* "flat": constant price, no volume; "zig": closes alternate, every bar
\* opens 50% above the previous close; "slide": closes fall by a cent a
\* bar, every bar opens 40 cents below the previous close; "nil" and "neg":
\* every close is zero / negative, every bar opens at 3.00
Patterns == {"flat", "zig"}

Close(p, k) ==
    IF p = "flat" THEN 300 ELSE IF p = "slide" THEN 330 - k
    ELSE IF p = "nil" THEN 0 ELSE IF p = "neg" THEN -300
    ELSE IF k % 2 = 1 THEN 300 ELSE 290

Open(p, k) ==
    IF p = "flat" THEN Close(p, k - 1) ELSE IF p = "slide" THEN Close(p, k - 1) - 40
    ELSE IF p \in {"nil", "neg"} THEN 300
    ELSE Close(p, k - 1) + 150

Vol(p, k) ==
    IF p = "flat" THEN 0 ELSE IF p \in {"slide", "nil", "neg"} THEN 1000
    ELSE IF k % 2 = 1 THEN 100 ELSE 4000

\* the lengths of bar lists the provider may hold for one ticker
MinuteLens == {0, roll, roll + 1}
DailyLens == {0, 1, 2} \cup (roll .. MaxDaily)

MinuteWorlds(w) ==
    IF w.minute.known THEN {w.minute}
    ELSE [known : {TRUE}, n : MinuteLens,
          pat : IF w.daily.known THEN {w.daily.pat} ELSE Patterns,
          hasToday : {TRUE}]

DailyWorlds(w) ==
    IF w.daily.known THEN {w.daily}
    ELSE [known : {TRUE}, n : DailyLens,
          pat : IF w.minute.known THEN {w.minute.pat} ELSE Patterns,
          hasToday : BOOLEAN]

\* a field of the provider's world that only some specifications vary
Field(w, name, default) == IF name \in DOMAIN w THEN w[name] ELSE default

Reverse(xs) == [k \in 1 .. Len(xs) |-> xs[Len(xs) + 1 - k]]

\* the minute bars the provider holds for the day, in time order: m.pre
\* pre-market bars up to 13:29 UTC, then the m.n bars of the regular
\* session from 13:30 UTC on
AllMinuteBars(m) ==
    LET pre == Field(m, "pre", 0)
    IN  [k \in 1 .. pre + m.n |->
            IF k <= pre
            THEN [t |-> Today * DayMs + (810 - pre + k - 1) * MinuteMs,
                  o |-> 250 + k, c |-> 250 + k, v |-> 500]
            ELSE [t |-> Today * DayMs + (810 + k - pre - 1) * MinuteMs,
                  o |-> Open(m.pat, k - pre), c |-> Close(m.pat, k - pre),
                  v |-> Vol(m.pat, k - pre)]]

\* results of /v2/aggs/ticker/{t}/range/1/minute/{day}/{day}: the bars in
\* the order the provider sends them (m.order); when the provider splits
\* them in m.pages = 2 pages, the first page, which carries a next_url
MinuteBars(m) ==
    LET sent == IF Field(m, "order", "asc") = "desc" THEN Reverse(AllMinuteBars(m))
                ELSE AllMinuteBars(m)
    IN  IF Field(m, "pages", 1) = 1 THEN sent ELSE SubSeq(sent, 1, (Len(sent) + 1) \div 2)

\* results of /v2/aggs/ticker/{t}/range/1/day/{start}/{day}
DailyBars(d) ==
    [k \in 1 .. d.n |->
        [t |-> (Today - (d.n - k) - (IF d.hasToday THEN 0 ELSE 1)) * DayMs + 4 * 60 * MinuteMs,
         o |-> Open(d.pat, k), c |-> Close(d.pat, k), v |-> Vol(d.pat, k)]]

\* results of /v2/aggs/ticker/{t}/prev: the bar of the previous trading day
PrevBars(d) ==
    LET before == SelectSeq(DailyBars(d), LAMBDA b : b.t \div DayMs < Today)
    IN  IF before = <<>> THEN <<>> ELSE <<before[Len(before)]>>

(***************************************************************************)
(* Feature builders of daily_ai_score.py                                   *)
(***************************************************************************)
Ok(v) == [ok |-> TRUE, val |-> v, exc |-> <<"", 0>>]
Err(msg) == [ok |-> FALSE, val |-> <<>>, exc |-> <<msg, 0>>]

\* pd.to_datetime(t, unit="ms").dt.strftime("%Y-%m-%d")
tdate(t) == t \div DayMs

RECURSIVE SortInsert(_, _)
SortInsert(sorted, b) ==
    IF sorted = <<>> THEN <<b>>
    ELSE IF tdate(sorted[Len(sorted)].t) <= tdate(b.t) THEN Append(sorted, b)
    ELSE Append(SortInsert(SubSeq(sorted, 1, Len(sorted) - 1), b), sorted[Len(sorted)])

\* dfd.sort_values("tdate")
RECURSIVE SortByTdate(_)
SortByTdate(res) ==
    IF res = <<>> THEN <<>>
    ELSE SortInsert(SortByTdate(SubSeq(res, 1, Len(res) - 1)), res[Len(res)])

RECURSIVE Sum(_)
Sum(xs) == IF xs = <<>> THEN 0 ELSE Head(xs) + Sum(Tail(xs))

\* df.tail(n)
LastN(xs, n) == IF Len(xs) <= n THEN xs ELSE SubSeq(xs, Len(xs) - n + 1, Len(xs))

\* np.clip(x, lo, hi); NaN stays NaN
Clip(x, lo, hi) == IF x = NaN THEN NaN ELSE Max(lo, Min(x, hi))

\* (open / prev_close - 1.0) * 100.0, in 1/SCALE percent, rounded down
GapPct(open, pc) ==
    IF pc > 0 THEN ((open - pc) * 100 * SCALE) \div pc
    ELSE -(((open - pc) * 100 * SCALE) \div (-pc))

\* np.diff(closes, prepend=closes[0]) split into gains and losses
Up(closes) ==
    [k \in 1 .. Len(closes) |-> IF k = 1 THEN 0 ELSE Max(closes[k] - closes[k - 1], 0)]
Down(closes) ==
    [k \in 1 .. Len(closes) |-> IF k = 1 THEN 0 ELSE Max(closes[k - 1] - closes[k], 0)]

\* rsi.iloc[i] of the rolling(roll, min_periods=roll) means, i 1-based:
\* NaN before roll values exist and where avg_loss is 0
RollingRsi(closes, i) ==
    IF i < roll THEN NaN
    ELSE LET gain == Sum(SubSeq(Up(closes), i - roll + 1, i))
             loss == Sum(SubSeq(Down(closes), i - roll + 1, i))
         IN  IF loss = 0 THEN NaN ELSE (100 * SCALE * gain) \div (gain + loss)

RsiNoDefault(closes, i) == RollingRsi(closes, i)

\* float(rsi.iloc[i]) if not math.isnan(rsi.iloc[i]) else 50.0
RsiOrDefault(closes, i) ==
    IF RollingRsi(closes, i) = NaN THEN 50 * SCALE ELSE RollingRsi(closes, i)

Closes(res) == [k \in 1 .. Len(res) |-> res[k].c]

\* daily_relvol after its poly_get returned res
daily_relvol(res, day) ==
    IF res = <<>> THEN Err("no daily data")
    ELSE LET dfd == SortByTdate(res)
             today == SelectSeq(dfd, LAMBDA b : tdate(b.t) = day)
             hist == LastN(SelectSeq(dfd, LAMBDA b : tdate(b.t) < day), 30)
         IN  IF today = <<>> THEN Err("IndexError")
             ELSE IF hist = <<>> THEN Ok(1 * SCALE)
             ELSE LET vol_today == today[Len(today)].v
                      total == Sum([k \in 1 .. Len(hist) |-> hist[k].v])
                  IN  IF total > 0 THEN Ok((vol_today * Len(hist) * SCALE) \div total)
                      ELSE Ok(1 * SCALE)

\* minute_features from the minute results to the first_open
MinuteFirstOpen(res) ==
    IF res = <<>> THEN Err("no minute data") ELSE Ok(res[1].o)

\* minute_features from the /prev results to the RSI
MinuteGapRsi(res, prev) ==
    IF prev = <<>> THEN Err("IndexError")
    ELSE IF prev[1].c = 0 THEN Err("ZeroDivisionError")
    ELSE IF Len(res) < roll + 1 THEN Err("not enough minutes for rsi")
    ELSE Ok([gap_pct |-> GapPct(res[1].o, prev[1].c),
             rsi14m |-> RsiOrDefault(Closes(res), Len(res))])

\* daily_features from the daily results to the RSI
DailyGapRsi(res, day) ==
    IF res = <<>> THEN Err("no daily data")
    ELSE LET dfd == SortByTdate(res)
             idxs == {k \in 1 .. Len(dfd) : tdate(dfd[k].t) = day}
         IN  IF idxs = {} THEN Err("no today row")
             ELSE LET i_today == CHOOSE k \in idxs : \A j \in idxs : j <= k
                  IN  IF i_today = 1 THEN Err("no prev day")
                      ELSE IF dfd[i_today - 1].c = 0 THEN Err("ZeroDivisionError")
                      ELSE Ok([gap_pct |-> GapPct(dfd[i_today].o, dfd[i_today - 1].c),
                               rsi14m |-> RsiOrDefault(Closes(dfd), i_today)])

\* the dict returned by minute_features / daily_features
Row(ticker, day, f, rvol, mode) ==
    [ticker |-> ticker, date |-> day,
     gap_pct |-> Clip(f.gap_pct, -40 * SCALE, 40 * SCALE),
     rsi14m |-> Clip(f.rsi14m, 0, 100 * SCALE),
     rvol |-> Clip(rvol, 0, 15 * SCALE),
     mode |-> mode]

(***************************************************************************)
(* poly_get run to completion on a script of provider responses            *)
(***************************************************************************)
PolyGetResponses == {r \in Responses : r.retryAfter = ""}

RECURSIVE RunPolyGet(_, _)
RunPolyGet(c, script) ==
    IF c.pc # "running" \/ script = <<>> THEN c
    ELSE RunPolyGet(PolyGetIter(c, Head(script)), Tail(script))

poly_get(script) == RunPolyGet(NewCall("poly_get"), script)

Repeat(r, k) == [i \in 1 .. k |-> r]

\* k times 429 and then a response that ends the call, or 429 throughout
PolyGetScripts ==
    {Repeat([status |-> 429, retryAfter |-> "", json |-> FALSE], k) \o <<f>> :
        k \in 0 .. (PolyGetRetries - 1),
        f \in {x \in PolyGetResponses : x.status \in {200, 403, 500, RequestError} /\ (x.status = 200 => x.json)}}
    \cup {Repeat([status |-> 429, retryAfter |-> "", json |-> FALSE], PolyGetRetries)}

(***************************************************************************)
(* daily_ai_score.main: the loop over the price-filtered tickers.          *)
(* idx = tickers finished, calls = the feature builders entered for the    *)
(* ticker of the current (or last finished) iteration with the exception   *)
(* each one ended with, part = the locals of the builder in progress.      *)
(***************************************************************************)
NoExc == <<"", 0>>
Pending == <<"pending", 0>>

Entered(fn) == [fn |-> fn, exc |-> Pending]

\* the last entered builder has ended with e
Ended(cs, e) == [cs EXCEPT ![Len(cs)].exc = e]

\* built.append(row), next ticker
AppendRow(row, cs) ==
    /\ built' = Append(built, row)
    /\ calls' = Ended(cs, NoExc)
    /\ idx' = idx + 1
    /\ mpc' = "loop"
    /\ part' = <<>>

\* continue: next ticker without a row
Skip(cs, e) ==
    /\ built' = built
    /\ calls' = Ended(cs, e)
    /\ idx' = idx + 1
    /\ mpc' = "loop"
    /\ part' = <<>>

TryDailyAlways(e) == TRUE

TryDailyUnlessAuth(e) == fallback /\ ~(e[1] = "Polygon error" /\ e[2] \in {401, 403})

\* is daily_features entered after minute_features raised e?
TryDaily(e) == fallback

\* except Exception as e: skip when DAILY_FALLBACK is off, else enter
\* daily_features
MinuteFailed(cs, e) ==
    IF ~TryDaily(e) THEN Skip(cs, e)
    ELSE /\ calls' = Append(Ended(cs, e), Entered("daily_features"))
         /\ mpc' = "d_daily"
         /\ part' = <<>>
         /\ UNCHANGED <<built, idx>>

\* for t in tickers: minute_features(t, day) up to the /prev request
MinuteFetchBars ==
    /\ mpc = "loop" /\ idx < NumTickers
    /\ \E script \in PolyGetScripts :
         LET c == poly_get(script)
             cs == <<Entered("minute_features")>>
         IN  IF c.pc = "raised"
             THEN MinuteFailed(cs, c.exc) /\ world' = NoWorld
             ELSE \E m \in MinuteWorlds(NoWorld) :
                    LET first == MinuteFirstOpen(MinuteBars(m))
                    IN  /\ world' = [NoWorld EXCEPT !.minute = m]
                        /\ IF ~first.ok THEN MinuteFailed(cs, first.exc)
                           ELSE /\ calls' = cs
                                /\ mpc' = "m_prev"
                                /\ part' = <<>>
                                /\ UNCHANGED <<built, idx>>
    /\ UNCHANGED <<run, call, fallback, exitStatus>>

\* minute_features from the /prev request up to daily_relvol's request
MinuteFetchPrev ==
    /\ mpc = "m_prev"
    /\ \E script \in PolyGetScripts :
         LET c == poly_get(script)
         IN  IF c.pc = "raised"
             THEN MinuteFailed(calls, c.exc) /\ world' = world
             ELSE \E d \in DailyWorlds(world) :
                    LET f == MinuteGapRsi(MinuteBars(world.minute), PrevBars(d))
                    IN  /\ world' = [world EXCEPT !.daily = d]
                        /\ IF ~f.ok THEN MinuteFailed(calls, f.exc)
                           ELSE /\ part' = f.val
                                /\ mpc' = "m_relvol"
                                /\ UNCHANGED <<built, idx, calls>>
    /\ UNCHANGED <<run, call, fallback, exitStatus>>

\* minute_features: daily_relvol and the returned row
MinuteFetchRelvol ==
    /\ mpc = "m_relvol"
    /\ \E script \in PolyGetScripts :
         LET c == poly_get(script)
             rv == daily_relvol(DailyBars(world.daily), Today)
         IN  IF c.pc = "raised" THEN MinuteFailed(calls, c.exc)
             ELSE IF ~rv.ok THEN MinuteFailed(calls, rv.exc)
             ELSE AppendRow(Row(TickerNames[idx + 1], Today, part, rv.val, "minute"), calls)
    /\ UNCHANGED <<run, call, fallback, exitStatus, world>>

\* daily_features up to daily_relvol's request
DailyFetchBars ==
    /\ mpc = "d_daily"
    /\ \E script \in PolyGetScripts :
         LET c == poly_get(script)
         IN  IF c.pc = "raised"
             THEN Skip(calls, c.exc) /\ world' = world
             ELSE \E d \in DailyWorlds(world) :
                    LET f == DailyGapRsi(DailyBars(d), Today)
                    IN  /\ world' = [world EXCEPT !.daily = d]
                        /\ IF ~f.ok THEN Skip(calls, f.exc)
                           ELSE /\ part' = f.val
                                /\ mpc' = "d_relvol"
                                /\ UNCHANGED <<built, idx, calls>>
    /\ UNCHANGED <<run, call, fallback, exitStatus>>

\* daily_features: daily_relvol and the returned row
DailyFetchRelvol ==
    /\ mpc = "d_relvol"
    /\ \E script \in PolyGetScripts :
         LET c == poly_get(script)
             rv == daily_relvol(DailyBars(world.daily), Today)
         IN  IF c.pc = "raised" THEN Skip(calls, c.exc)
             ELSE IF ~rv.ok THEN Skip(calls, rv.exc)
             ELSE AppendRow(Row(TickerNames[idx + 1], Today, part, rv.val, "daily"), calls)
    /\ UNCHANGED <<run, call, fallback, exitStatus, world>>

\* after the loop: sys.exit(2) without rows, else on to score_rows
AfterLoop ==
    /\ mpc = "loop" /\ idx = NumTickers
    /\ IF built = <<>> THEN mpc' = "exited" /\ exitStatus' = 2
       ELSE mpc' = "score" /\ exitStatus' = exitStatus
    /\ UNCHANGED <<run, call, fallback, idx, world, calls, part, built>>

InitMain ==
    /\ call = IdleCall
    /\ fallback \in BOOLEAN
    /\ idx = 0
    /\ world = NoWorld
    /\ mpc = "loop"
    /\ calls = <<>>
    /\ part = <<>>
    /\ built = <<>>
    /\ exitStatus = -1
    /\ run = RunOff

NextMain ==
    \/ MinuteFetchBars \/ MinuteFetchPrev \/ MinuteFetchRelvol
    \/ DailyFetchBars \/ DailyFetchRelvol \/ AfterLoop

SpecMain == InitMain /\ [][NextMain]_vars

(***************************************************************************)
(* The three Wilder RSI implementations.  Averages are kept as exact       *)
(* numerators: after n differences the average is WilderNum / roll^(n -    *)
(* roll + 1), the same denominator for gains and losses.                   *)
(***************************************************************************)
None == -2000000

RECURSIVE Pow(_, _)
Pow(b, e) == IF e = 0 THEN 1 ELSE b * Pow(b, e - 1)

\* gains / losses of np.diff(closes)
Gains(closes) == [k \in 1 .. Len(closes) - 1 |-> Max(closes[k + 1] - closes[k], 0)]
Losses(closes) == [k \in 1 .. Len(closes) - 1 |-> Max(closes[k] - closes[k + 1], 0)]

\* the mean of xs[:period], then avg = (avg * (period - 1) + xs[i]) / period
\* for i up to n
RECURSIVE WilderNum(_, _)
WilderNum(xs, n) ==
    IF n <= roll THEN Sum(SubSeq(xs, 1, roll))
    ELSE WilderNum(xs, n - 1) * (roll - 1) + xs[n] * Pow(roll, n - roll)

\* 100 - 100 / (1 + avg_gain / avg_loss), in 1/SCALE
RsiOf(gain, loss) == (100 * SCALE * gain) \div (gain + loss)

\* build_candidates_from_polygon.compute_rsi
compute_rsi(closes) ==
    IF Len(closes) < roll + 1 THEN NaN
    ELSE LET n == Len(closes) - 1
             avg_gain == WilderNum(Gains(closes), n)
             avg_loss == WilderNum(Losses(closes), n)
         IN  IF avg_loss = 0 THEN 100 * SCALE ELSE RsiOf(avg_gain, avg_loss)

\* score_today_from_polygon.rsi_wilder
rsi_wilder(closes) ==
    IF Len(closes) < roll + 1 THEN None
    ELSE LET n == Len(closes) - 1
             avg_gain == WilderNum(Gains(closes), n)
             avg_loss == WilderNum(Losses(closes), n)
         IN  IF avg_loss = 0 THEN 100 * SCALE ELSE RsiOf(avg_gain, avg_loss)

\* the value of one smoothing step of make_training_from_polygon.rsi
Smoothed(gain, loss) ==
    IF loss = 0 /\ gain = 0 THEN 50 * SCALE
    ELSE IF loss = 0 THEN 100 * SCALE
    ELSE RsiOf(gain, loss)

\* make_training_from_polygon.rsi: the seed returns at once when its
\* average loss is 0, else the value of the last smoothing step
rsi(closes) ==
    IF Len(closes) < roll + 1 THEN None
    ELSE LET n == Len(closes) - 1
             seed_gain == WilderNum(Gains(closes), roll)
             seed_loss == WilderNum(Losses(closes), roll)
         IN  IF seed_loss = 0 /\ seed_gain = 0 THEN 50 * SCALE
             ELSE IF seed_loss = 0 THEN 100 * SCALE
             ELSE Smoothed(WilderNum(Gains(closes), n), WilderNum(Losses(closes), n))

(***************************************************************************)
(* A fetch client run to completion on a script of provider responses      *)
(***************************************************************************)
ClientIter(fn, c, r) ==
    CASE fn = "req" -> ReqIter(c, r)
      [] fn = "get_json" -> GetJsonIter(c, r)
      [] fn = "api_get" -> ApiGetIter(c, r, 1000)
      [] OTHER -> PolyGetIter(c, r)

RECURSIVE RunClient(_, _, _)
RunClient(fn, c, script) ==
    IF c.pc # "running" \/ script = <<>> THEN c
    ELSE RunClient(fn, ClientIter(fn, c, Head(script)), Tail(script))

\* a 200 with a body at once or after one 429, a 403, or 429 to the limit
FetchScripts(fn) ==
    LET ok == [status |-> 200, retryAfter |-> "", json |-> TRUE]
        busy == [status |-> 429, retryAfter |-> "", json |-> FALSE]
        denied == [status |-> 403, retryAfter |-> "", json |-> FALSE]
    IN  {<<ok>>, <<busy, ok>>, <<denied>>, Repeat(busy, Limit(fn))}

\* the call of fn that was answered 200 with a body, as seen by the caller
OkFetch(fn) ==
    LET c == RunClient(fn, NewCall(fn), <<[status |-> 200, retryAfter |-> "", json |-> TRUE]>>)
    IN  [pc |-> c.pc, result |-> c.result]

\* how the calls of fn can end, as seen by the caller: pc "returned"
\* (result "body" or "None") or "raised"
Fetches(fn) ==
    {[pc |-> c.pc, result |-> c.result] :
        c \in {RunClient(fn, NewCall(fn), script) : script \in FetchScripts(fn)}}

\* the bar lists the provider holds for one ticker on the day of the run
ScriptPatterns == Patterns \cup {"slide"}
ScriptDailyWorlds ==
    [known : {TRUE}, n : {0, 2, roll + 1}, pat : ScriptPatterns, hasToday : BOOLEAN]
ScriptMinuteWorlds(d) == [known : {TRUE}, n : MinuteLens, pat : {d.pat}, hasToday : {TRUE}]

RECURSIVE InsertIdx(_, _, _)
InsertIdx(sorted, k, key) ==
    IF sorted = <<>> THEN <<k>>
    ELSE IF key[sorted[Len(sorted)]] <= key[k] THEN Append(sorted, k)
    ELSE Append(InsertIdx(SubSeq(sorted, 1, Len(sorted) - 1), k, key), sorted[Len(sorted)])

\* the indices 1 .. n in ascending order of key, equal keys in index order
RECURSIVE SortIdx(_, _)
SortIdx(key, n) == IF n = 0 THEN <<>> ELSE InsertIdx(SortIdx(key, n - 1), n, key)

\* a stable ascending sort of xs on the integer keys key[k] of xs[k]
StableSort(xs, key) ==
    LET order == SortIdx(key, Len(xs))
    IN  [p \in 1 .. Len(xs) |-> xs[order[p]]]

\* sorted(res, key=lambda r: r["t"])
SortByT(res) == StableSort(res, [k \in 1 .. Len(res) |-> res[k].t])

\* a CSV field written as the empty string
Blank == -3000000

Missing(x) == x \in {NaN, None, Blank}

\* the result of one loop iteration: kind "row", "skip" (continue / return
\* None) or "exc" (an exception caught by the loop); nMinute = minute bars
\* received, -1 when the minute request was not made or raised
Outcome(kind, row, nMinute) == [kind |-> kind, row |-> row, nMinute |-> nMinute]

(***************************************************************************)
(* build_candidates_from_polygon.py                                        *)
(***************************************************************************)
\* last_two_trading_days_ohlc: the bars of the last 14 days, ascending, or
\* <<>> for (None, None)
last_two_trading_days_ohlc(d) ==
    LET res == SelectSeq(DailyBars(d), LAMBDA b : tdate(b.t) >= Today - 14)
    IN  IF Len(res) < 2 THEN <<>> ELSE SortByT(res)

\* avg_daily_volume_30d: float(np.mean(vols)) as the pair <<sum, count>>
avg_daily_volume_30d(d) ==
    LET res == SortByT(DailyBars(d))
        vols == LastN([k \in 1 .. Len(res) |-> res[k].v], 30)
    IN  <<Sum(vols), Len(vols)>>

\* cum_vol / v30 in 1/SCALE, NaN unless v30 > 0
RelVol(cum_vol, v30) ==
    IF v30[2] = 0 \/ v30[1] <= 0 THEN NaN ELSE (cum_vol * v30[2] * SCALE) \div v30[1]

\* round(x, n) if np.isfinite(x) else ""
RoundOrBlank(x) == IF Missing(x) THEN Blank ELSE x

\* the body of main's loop for ticker tic: r1, r2, r3 the finished req
\* calls of last_two_trading_days_ohlc, today_minute_aggs and
\* avg_daily_volume_30d
BuildIter(tic, r1, r2, r3, d, m) ==
    LET two == last_two_trading_days_ohlc(d)
        mins == SortByT(MinuteBars(m))
    IN  IF r1.pc = "raised" THEN Outcome("exc", <<>>, -1)
        ELSE IF two = <<>> THEN Outcome("skip", <<>>, -1)
        ELSE IF two[Len(two) - 1].c <= 0 THEN Outcome("skip", <<>>, -1)
        ELSE IF r2.pc = "raised" THEN Outcome("exc", <<>>, -1)
        ELSE IF mins = <<>> THEN Outcome("skip", <<>>, 0)
        ELSE IF r3.pc = "raised" THEN Outcome("exc", <<>>, Len(mins))
        ELSE LET prev_close == two[Len(two) - 1].c
                 cum_vol == Sum([k \in 1 .. Len(mins) |-> mins[k].v])
             IN  Outcome("row",
                         [Ticker |-> tic,
                          Price |-> mins[Len(mins)].c,
                          GapPct |-> RoundOrBlank(GapPct(mins[1].o, prev_close)),
                          RelVol |-> RoundOrBlank(RelVol(cum_vol, avg_daily_volume_30d(d))),
                          RSI14m |-> RoundOrBlank(compute_rsi(Closes(mins)))],
                         Len(mins))

(***************************************************************************)
(* score_today_from_polygon.py: features of one ticker                     *)
(***************************************************************************)
STRICT_FINVIZ == TRUE
PRICE_MIN == 100
PRICE_MAX == 500

\* the run is made at 20:00 UTC, the session opens at 13:30 UTC
NowMinute == 1200
OpenMinute == 810

\* cum_vol / (avg_dv * (elapsed_min / 390.0)) in 1/SCALE for dv = the daily
\* volumes; None when the expected volume is not positive
ExpectedRvol(cum_vol, dv) ==
    LET elapsed_min == Max(1, NowMinute - OpenMinute)
    IN  IF dv = <<>> \/ Sum(dv) <= 0 THEN None
        ELSE (((cum_vol * Len(dv) * SCALE) \div Sum(dv)) * 390) \div elapsed_min

\* pmin <= prev_close <= pmax
InPriceBand(prev_close) ==
    STRICT_FINVIZ \/ (PRICE_MIN <= prev_close /\ prev_close <= PRICE_MAX)

\* the body of main's loop for ticker t: r1, r2, r3 the finished get_json
\* calls of fetch_prev_close, fetch_minutes_today and fetch_daily_window
ScoreIter(t, r1, r2, r3, d, m) ==
    LET prev == PrevBars(d)
        res == MinuteBars(m)
        idx0 == {k \in 1 .. Len(res) : res[k].t >= Today * DayMs + OpenMinute * MinuteMs}
        mins == IF idx0 = {} THEN <<>>
                ELSE SubSeq(res, CHOOSE k \in idx0 : \A j \in idx0 : k <= j, Len(res))
        rsi14m == rsi_wilder(Closes(mins))
    IN  IF r1.pc = "raised" THEN Outcome("exc", <<>>, -1)
        ELSE IF prev = <<>> THEN Outcome("skip", <<>>, -1)
        ELSE IF prev[1].c <= 0 THEN Outcome("skip", <<>>, -1)
        ELSE IF r2.pc = "raised" THEN Outcome("exc", <<>>, -1)
        ELSE IF MinuteBars(m) = <<>> \/ mins = <<>> THEN Outcome("skip", <<>>, Len(mins))
        ELSE IF rsi14m = None THEN Outcome("skip", <<>>, Len(mins))
        ELSE IF r3.pc = "raised" THEN Outcome("exc", <<>>, Len(mins))
        ELSE IF ~InPriceBand(prev[1].c) THEN Outcome("skip", <<>>, Len(mins))
        ELSE Outcome("row",
                     [ticker |-> t, date |-> Today,
                      gap_pct |-> GapPct(mins[1].o, prev[1].c),
                      rsi14m |-> rsi14m,
                      rvol |-> ExpectedRvol(Sum([k \in 1 .. Len(mins) |-> mins[k].v]),
                                            [k \in 1 .. d.n |-> DailyBars(d)[k].v])],
                     Len(mins))

(***************************************************************************)
(* make_training_from_polygon.py: one ticker on one day                    *)
(***************************************************************************)
\* TRAIN_START = TRAIN_END: the date range holds one day
TRAIN_START == Today

\* daily_aggs(ticker, start_d, end_d) with sort=desc
daily_aggs(r, d, start_d, end_d) ==
    LET inWindow == SelectSeq(DailyBars(d), LAMBDA b : start_d <= tdate(b.t) /\ tdate(b.t) <= end_d)
    IN  AggsResults(r.result, [k \in 1 .. Len(inWindow) |-> inWindow[Len(inWindow) + 1 - k]])

\* want_key of prev_close_and_avgvol30 for day
RangeKey(day) == <<day - 1 - 90, day - 1>>

NoStore == [range_key |-> <<>>, dailies |-> <<>>]

\* an entry, once written, is kept whatever day is asked about
StoreAfterOnce(store, r, d, day) ==
    IF store.range_key = <<>>
    THEN [range_key |-> RangeKey(day),
          dailies |-> daily_aggs(r, d, RangeKey(day)[1], RangeKey(day)[2])]
    ELSE store

\* the cache entry of the ticker after prev_close_and_avgvol30(ticker, day,
\* cache), r the finished api_get call it makes when the key differs
StoreAfter(store, r, d, day) ==
    IF store.range_key # RangeKey(day)
    THEN [range_key |-> RangeKey(day),
          dailies |-> daily_aggs(r, d, RangeKey(day)[1], RangeKey(day)[2])]
    ELSE store

\* (prev_close, avgvol30) from the cached dailies; avgvol30 as <<sum, count>>
prev_close_and_avgvol30(store) ==
    IF store.dailies = <<>> THEN <<None, <<0, 0>>>>
    ELSE LET take == SubSeq(store.dailies, 1, Min(30, Len(store.dailies)))
         IN  <<store.dailies[1].c, <<Sum([k \in 1 .. Len(take) |-> take[k].v]), Len(take)>>>>

RoundOrZero(x) == IF x = None THEN 0 ELSE x

\* round(x, 6) if x is not None else ""
RoundOrEmpty(x) == IF x = None THEN Blank ELSE x

\* the body of the day loop: store = the ticker's cache entry after the
\* call of prev_close_and_avgvol30, r2 the finished api_get call of
\* minute_aggs_one_day
TrainIter(ticker, day, store, r2, m) ==
    LET pa == prev_close_and_avgvol30(store)
        mins == AggsResults(r2.result, MinuteBars(m))
        today_vol == Sum([k \in 1 .. Len(mins) |-> mins[k].v])
        relvol == IF pa[2][2] > 0 /\ pa[2][1] > 0
                  THEN (today_vol * pa[2][2] * SCALE) \div pa[2][1] ELSE None
    IN  IF pa[1] = None THEN Outcome("skip", <<>>, -1)
        ELSE IF mins = <<>> THEN Outcome("skip", <<>>, 0)
        ELSE IF pa[1] <= 0 THEN Outcome("skip", <<>>, Len(mins))
        ELSE Outcome("row",
                     [Date |-> day, Ticker |-> ticker,
                      GapPctPoly |-> GapPct(mins[1].o, pa[1]),
                      RSI14m |-> RoundOrEmpty(rsi(Closes(mins))),
                      RelVolPoly |-> RoundOrEmpty(relvol)],
                     Len(mins))

(***************************************************************************)
(* Scoring.  Scores are in 1/ScoreScale.  A fitted model is known by what  *)
(* it offers (kind) and by the function it computes (w): "const" gives     *)
(* every row the same value, "gap" separates positive gaps from the rest.  *)
(***************************************************************************)
ScoreScale == 10000

Models ==
    {[kind |-> "none", w |-> "const"], [kind |-> "raises", w |-> "const"]}
    \cup [kind : {"proba", "decision"}, w : {"const", "gap"}]

Abs(x) == IF x < 0 THEN -x ELSE x

\* model.predict_proba(X)[:,1] for one row
ProbaOf(w, gap_pct) == IF w = "const" THEN 5000 ELSE IF gap_pct > 0 THEN 8000 ELSE 3000

\* model.decision_function(X) for one row, in units of 1
DecisionOf(w, gap_pct) == IF w = "const" THEN 0 ELSE IF gap_pct > 0 THEN 3 ELSE -2

\* 1 / (1 + np.exp(-s)) for integer s
Sigmoid(x) ==
    CASE x <= -4 -> 180 [] x = -3 -> 474 [] x = -2 -> 1192 [] x = -1 -> 2689
      [] x = 0 -> 5000 [] x = 1 -> 7311 [] x = 2 -> 8808 [] x = 3 -> 9526
      [] OTHER -> 9820

\* 0.5*g + 0.3*v + 0.2*r of score_today_from_polygon.score_rows
Heuristic(gap_pct, rvol, rsi14m) ==
    LET g == ((Clip(gap_pct, -40 * SCALE, 40 * SCALE) + 40 * SCALE) * ScoreScale) \div (80 * SCALE)
        v == (Clip(rvol, 0, 10 * SCALE) * ScoreScale) \div (10 * SCALE)
        r == ScoreScale - (Abs(rsi14m - 50 * SCALE) * ScoreScale) \div (50 * SCALE)
    IN  (5 * g + 3 * v + 2 * r) \div 10

PutIfAbsent(r, k, v) == [x \in DOMAIN r \cup {k} |-> IF x \in DOMAIN r THEN r[x] ELSE v]

\* r[k] = v on a dict
Put(r, k, v) == [x \in DOMAIN r \cup {k} |-> IF x = k THEN v ELSE r[x]]

\* the score score_today_from_polygon.score_rows gives a kept row
ScoreOf(model, r) ==
    CASE model.kind = "none" -> Heuristic(r.gap_pct, r.rvol, r.rsi14m)
      [] model.kind = "proba" -> ProbaOf(model.w, r.gap_pct)
      [] model.kind = "decision" -> Sigmoid(DecisionOf(model.w, r.gap_pct))
      [] OTHER -> 0

\* list.sort(key=score, reverse=True): stable, equal scores keep their order
SortDescStable(rows) == StableSort(rows, [k \in 1 .. Len(rows) |-> -rows[k].score])

score_rows_keep_all(model, rows) ==
    LET scored == [k \in 1 .. Len(rows) |-> Put(rows[k], "score", ScoreOf(model, rows[k]))]
        sorted == SortDescStable(scored)
    IN  [k \in 1 .. Len(sorted) |-> Put(sorted[k], "rank", k)]

\* score_today_from_polygon.score_rows(model, rows)
score_rows(model, rows) ==
    LET keep == SelectSeq(rows, LAMBDA r : r.gap_pct # None /\ r.rvol # None /\ r.rsi14m # None)
        scored == [k \in 1 .. Len(keep) |-> Put(keep[k], "score", ScoreOf(model, keep[k]))]
        sorted == SortDescStable(scored)
    IN  [k \in 1 .. Len(sorted) |-> Put(sorted[k], "rank", k)]

DailyScoresOrHeuristic(model, rows) ==
    [k \in 1 .. Len(rows) |->
        IF model.kind = "proba" THEN ProbaOf(model.w, rows[k].gap_pct)
        ELSE Heuristic(rows[k].gap_pct, rows[k].rvol, rows[k].rsi14m)]

\* daily_ai_score.score_rows: p of the rows, or <<>> when load_model,
\* predict_proba and decision_function all fail
DailyScores(model, rows) ==
    LET dec == [k \in 1 .. Len(rows) |-> DecisionOf(model.w, rows[k].gap_pct)]
        lo == CHOOSE x \in {dec[k] : k \in 1 .. Len(rows)} : \A k \in 1 .. Len(rows) : x <= dec[k]
        hi == CHOOSE x \in {dec[k] : k \in 1 .. Len(rows)} : \A k \in 1 .. Len(rows) : x >= dec[k]
    IN  CASE model.kind = "proba" ->
               [k \in 1 .. Len(rows) |-> ProbaOf(model.w, rows[k].gap_pct)]
          [] model.kind = "decision" ->
               [k \in 1 .. Len(rows) |->
                    IF hi = lo THEN 0 ELSE ((dec[k] - lo) * ScoreScale) \div (hi - lo)]
          [] OTHER -> <<>>

\* the orders df.sort_values("ai_score", ascending=False) may give: any
\* arrangement with non-increasing score (the default sort is not stable)
DescOrders(rows) ==
    {p \in [1 .. Len(rows) -> 1 .. Len(rows)] :
        /\ \A a, b \in 1 .. Len(rows) : a # b => p[a] # p[b]
        /\ \A a \in 1 .. Len(rows) - 1 : rows[p[a]].ai_score >= rows[p[a + 1]].ai_score}

(***************************************************************************)
(* The mains of build_candidates_from_polygon, score_today_from_polygon    *)
(* and make_training_from_polygon.  run.i = tickers finished, run.rows =   *)
(* the rows appended, run.last = the outcome of the latest iteration,      *)
(* run.status = the exit status (-1 while running), run.wrote = an output  *)
(* file was written, run.out = its rows.                                   *)
(***************************************************************************)
Universe == [k \in 1 .. NumTickers |-> TickerNames[k]]

\* the orders the universe file may list the tickers in
UniverseOrders ==
    {u \in [1 .. NumTickers -> {TickerNames[k] : k \in 1 .. NumTickers}] :
        \A a, b \in 1 .. NumTickers : a # b => u[a] # u[b]}

NewRun(script, universe) ==
    [script |-> script, pc |-> "loop", universe |-> universe, i |-> 0, rows |-> <<>>,
     last |-> Outcome("none", <<>>, -1), status |-> -1, wrote |-> FALSE, out |-> <<>>,
     cache |-> [k \in 1 .. Len(universe) |-> NoStore], model |-> "unset"]

\* without the try/except of the loop an exception would end the process
AdvanceUncaught(r, o) ==
    IF o.kind = "exc" THEN [r EXCEPT !.pc = "done", !.status = 1, !.last = o]
    ELSE [r EXCEPT !.i = r.i + 1,
                   !.rows = IF o.kind = "row" THEN Append(r.rows, o.row) ELSE r.rows,
                   !.last = o]

\* the loop moves to the next ticker, with rows.append(row) after a row
Advance(r, o) ==
    [r EXCEPT !.i = r.i + 1,
              !.rows = IF o.kind = "row" THEN Append(r.rows, o.row) ELSE r.rows,
              !.last = o]

\* the process ends with status st, having written rows out when wrote
Exit(r, st, wrote, out) ==
    [r EXCEPT !.pc = "done", !.status = st, !.wrote = wrote, !.out = out]

\* the place of a ticker in lexical order
TickerRank(t) == CHOOSE k \in 1 .. Len(TickerNames) : TickerNames[k] = t

\* rows_out.sort(key=lambda r: (r["Date"], r["Ticker"]))
SortByDateTicker(rows) ==
    StableSort(rows, [k \in 1 .. Len(rows) |->
                        rows[k].Date * (Len(TickerNames) + 1) + TickerRank(rows[k].Ticker)])

\* the outcomes of one pass of the loop body of build_candidates, by ticker
BuildOutcomes ==
    [t \in {Universe[k] : k \in 1 .. Len(Universe)} |->
        UNION {{BuildIter(t, r1, r2, r3, d, m) :
                   r1 \in Fetches("req"), r2 \in Fetches("req"), r3 \in Fetches("req"),
                   m \in ScriptMinuteWorlds(d)} : d \in ScriptDailyWorlds}]

\* for tic in tickers: try ... except Exception
BuildTicker ==
    /\ run.script = "build_candidates" /\ run.pc = "loop" /\ run.i < Len(run.universe)
    /\ \E o \in BuildOutcomes[run.universe[run.i + 1]] : run' = Advance(run, o)
    /\ UNCHANGED <<call, fallback, idx, world, mpc, calls, part, built, exitStatus>>

BuildFinishLenient ==
    /\ run.script = "build_candidates" /\ run.pc = "loop" /\ run.i = Len(run.universe)
    /\ run' = Exit(run, 0, TRUE, run.rows)
    /\ UNCHANGED <<call, fallback, idx, world, mpc, calls, part, built, exitStatus>>

\* if not rows: sys.exit(2); else df.to_csv(OUT_PATH)
BuildFinish ==
    /\ run.script = "build_candidates" /\ run.pc = "loop" /\ run.i = Len(run.universe)
    /\ run' = IF run.rows = <<>> THEN Exit(run, 2, FALSE, <<>>) ELSE Exit(run, 0, TRUE, run.rows)
    /\ UNCHANGED <<call, fallback, idx, world, mpc, calls, part, built, exitStatus>>

\* the outcomes of one pass of the loop body of score_today_from_polygon
ScoreOutcomes ==
    [t \in {TickerNames[k] : k \in 1 .. Len(TickerNames)} |->
        UNION {{ScoreIter(t, r1, r2, r3, d, m) :
                   r1 \in Fetches("get_json"), r2 \in Fetches("get_json"),
                   r3 \in Fetches("get_json"), m \in ScriptMinuteWorlds(d)} :
               d \in ScriptDailyWorlds}]

\* for t in tickers[:MAX_TICKERS]: try ... except Exception
ScoreTicker ==
    /\ run.script = "score_today_from_polygon" /\ run.pc = "loop" /\ run.i < Len(run.universe)
    /\ \E o \in ScoreOutcomes[run.universe[run.i + 1]] : run' = Advance(run, o)
    /\ UNCHANGED <<call, fallback, idx, world, mpc, calls, part, built, exitStatus>>

\* model = load_model(MODEL_PATH); ranked = score_rows(model, rows); the
\* output is written and main returns
ScoreFinish ==
    /\ run.script = "score_today_from_polygon" /\ run.pc = "loop" /\ run.i = Len(run.universe)
    /\ \E model \in Models :
         run' = [Exit(run, 0, TRUE, score_rows(model, run.rows)) EXCEPT !.model = model.kind]
    /\ UNCHANGED <<call, fallback, idx, world, mpc, calls, part, built, exitStatus>>

\* for ticker in universe: the pre-warm call of prev_close_and_avgvol30 and
\* the loop over the days, here the one day TRAIN_START
TrainTicker ==
    /\ run.script = "make_training" /\ run.pc = "loop" /\ run.i < Len(run.universe)
    /\ \E r1, r1b, r2 \in Fetches("api_get"), d \in ScriptDailyWorlds :
         \E m \in ScriptMinuteWorlds(d) :
           LET k == run.i + 1
               warm == StoreAfter(run.cache[k], r1, d, TRAIN_START)
               store == StoreAfter(warm, r1b, d, TRAIN_START)
               o == TrainIter(run.universe[k], TRAIN_START, store, r2, m)
           IN  run' = [Advance(run, o) EXCEPT !.cache[k] = store]
    /\ UNCHANGED <<call, fallback, idx, world, mpc, calls, part, built, exitStatus>>

\* if not rows_out: the header alone is written and sys.exit(0); else the
\* rows are written sorted by (Date, Ticker)
TrainFinish ==
    /\ run.script = "make_training" /\ run.pc = "loop" /\ run.i = Len(run.universe)
    /\ run' = Exit(run, 0, TRUE, SortByDateTicker(run.rows))
    /\ UNCHANGED <<call, fallback, idx, world, mpc, calls, part, built, exitStatus>>

(***************************************************************************)
(* daily_ai_score.main: the price filter before its loop                   *)
(***************************************************************************)
\* a previous close that passes every price filter
poly_prev_close_in_band(r, d) == PRICE_MIN

\* poly_prev_close, r the finished poly_get call: None on any exception
poly_prev_close(r, d) ==
    IF r.pc = "raised" \/ PrevBars(d) = <<>> THEN None ELSE PrevBars(d)[1].c

\* for t in tickers: filt.append(t) when PRICE_MIN <= pc <= PRICE_MAX
PriceFilterTicker ==
    /\ run.script = "daily_price_filter" /\ run.pc = "loop" /\ run.i < Len(run.universe)
    /\ \E r \in Fetches("poly_get"), d \in ScriptDailyWorlds :
         LET pc == poly_prev_close(r, d)
             t == run.universe[run.i + 1]
         IN  run' = Advance(run, IF pc = None THEN Outcome("skip", <<>>, -1)
                                 ELSE IF PRICE_MIN <= pc /\ pc <= PRICE_MAX THEN Outcome("row", t, -1)
                                 ELSE Outcome("skip", <<>>, -1))
    /\ UNCHANGED <<call, fallback, idx, world, mpc, calls, part, built, exitStatus>>

(***************************************************************************)
(* daily_ai_score.main after its loop, on the lists of rows the loop can   *)
(* build                                                                   *)
(***************************************************************************)
\* the rows daily_features can return for ticker t
DailyRows(t) ==
    {Row(t, Today, DailyGapRsi(DailyBars(d), Today).val, daily_relvol(DailyBars(d), Today).val, "daily") :
        d \in {x \in ScriptDailyWorlds :
                  DailyGapRsi(DailyBars(x), Today).ok /\ daily_relvol(DailyBars(x), Today).ok}}

\* if not built: sys.exit(2); score_rows(built) or sys.exit(3); write JSON
DailyScoreAndWrite ==
    /\ run.script = "daily_ai_score" /\ run.pc = "loop"
    /\ IF run.rows = <<>> THEN run' = Exit(run, 2, FALSE, <<>>)
       ELSE \E model \in Models :
              LET p == DailyScores(model, run.rows)
                  df == [k \in 1 .. Len(run.rows) |-> Put(run.rows[k], "ai_score", p[k])]
              IN  IF p = <<>> THEN run' = [Exit(run, 3, FALSE, <<>>) EXCEPT !.model = model.kind]
                  ELSE \E o \in DescOrders(df) :
                         run' = [Exit(run, 0, TRUE, [k \in 1 .. Len(df) |-> df[o[k]]])
                                   EXCEPT !.model = model.kind]
    /\ UNCHANGED <<call, fallback, idx, world, mpc, calls, part, built, exitStatus>>

(***************************************************************************)
(* score_today_from_csv.main on a CSV written by make_training             *)
(***************************************************************************)
\* the rows make_training can write for ticker t
TrainRows(t) ==
    {o.row : o \in {x \in {TrainIter(t, Today,
                                     StoreAfter(NoStore, OkFetch("api_get"), d, Today),
                                     OkFetch("api_get"),
                                     [known |-> TRUE, n |-> n, pat |-> d.pat, hasToday |-> TRUE]) :
                              d \in ScriptDailyWorlds, n \in MinuteLens} : x.kind = "row"}}

\* pd.to_numeric(..., errors="coerce") then X.dropna()
Numeric(r) == ~Missing(r.GapPctPoly) /\ ~Missing(r.RelVolPoly) /\ ~Missing(r.RSI14m)

\* no model file or an empty CSV: return 0 without writing; else the kept
\* rows are scored, sorted and written with ai_score * 100
CsvMain ==
    /\ run.script = "score_today_from_csv" /\ run.pc = "loop"
    /\ \E model \in Models :
         LET X == SelectSeq(run.rows, Numeric)
             prob == [k \in 1 .. Len(X) |->
                        IF model.kind = "proba" THEN ProbaOf(model.w, X[k].GapPctPoly)
                        ELSE DecisionOf(model.w, X[k].GapPctPoly) * ScoreScale]
             out == [k \in 1 .. Len(X) |->
                        [Date |-> X[k].Date, Ticker |-> X[k].Ticker, gap_pct |-> X[k].GapPctPoly,
                         rvol |-> X[k].RelVolPoly, rsi14m |-> X[k].RSI14m, ai_score |-> prob[k]]]
         IN  IF model.kind = "none" \/ run.rows = <<>>
             THEN run' = [Exit(run, 0, FALSE, <<>>) EXCEPT !.model = model.kind]
             ELSE IF model.kind = "raises" \/ X = <<>>
             THEN run' = [Exit(run, 1, FALSE, <<>>) EXCEPT !.model = model.kind]
             ELSE \E o \in DescOrders(out) :
                    run' = [Exit(run, 0, TRUE,
                                 [k \in 1 .. Len(out) |->
                                     [out[o[k]] EXCEPT !.ai_score = out[o[k]].ai_score * 100]])
                              EXCEPT !.model = model.kind]
    /\ UNCHANGED <<call, fallback, idx, world, mpc, calls, part, built, exitStatus>>

(***************************************************************************)
(* score_rows of score_today_from_polygon applied to lists of rows, and    *)
(* the RSI implementations applied to lists of closes                      *)
(***************************************************************************)
\* the rows main can append for ticker t
ScoreRows(t) ==
    {o.row : o \in {x \in {ScoreIter(t, OkFetch("get_json"), OkFetch("get_json"), OkFetch("get_json"),
                                     d, [known |-> TRUE, n |-> n, pat |-> d.pat, hasToday |-> TRUE]) :
                              d \in ScriptDailyWorlds, n \in MinuteLens} :
                       x.kind = "row"}}

\* the same rows carrying the rank of an earlier scoring
RankedScoreRows(t) == {Put(r, "rank", 9) : r \in ScoreRows(t)}

\* the rows a loop of the given kind can append for ticker t
RowsOfKind(kind, t) ==
    CASE kind = "daily" -> DailyRows(t)
      [] kind = "train" -> TrainRows(t)
      [] kind = "ranked" -> RankedScoreRows(t)
      [] OTHER -> ScoreRows(t)

\* per ticker universe[k], universe[k + 1], ... no row or one row of the kind
RECURSIVE RowListsFrom(_, _, _)
RowListsFrom(kind, universe, k) ==
    IF k > Len(universe) THEN {<<>>}
    ELSE {h \o t : h \in {<<>>} \cup {<<r>> : r \in RowsOfKind(kind, universe[k])},
                   t \in RowListsFrom(kind, universe, k + 1)}

\* the lists score_rows is applied to, in any universe order
ScoreRowsInputs ==
    UNION {RowListsFrom("score", u, 1) \cup RowListsFrom("ranked", u, 1) : u \in UniverseOrders}

ApplyScoreRows ==
    /\ run.script = "score_rows" /\ run.pc = "loop"
    /\ \E model \in Models :
         run' = [run EXCEPT !.pc = "done", !.out = score_rows(model, run.rows), !.model = model.kind]
    /\ UNCHANGED <<call, fallback, idx, world, mpc, calls, part, built, exitStatus>>

\* closes that start at 300 and move by shape for roll - 1 steps, then by tail
CloseSeries(shape, tail) ==
    LET step(k) == CASE shape = "flat" -> 0
                     [] shape = "rise" -> 1
                     [] shape = "fall" -> -1
                     [] OTHER -> IF k % 2 = 1 THEN 2 ELSE -1
        delta == [k \in 1 .. roll - 1 |-> step(k)] \o tail
    IN  [k \in 1 .. Len(delta) + 1 |-> 300 + Sum(SubSeq(delta, 1, k - 1))]

ClosesInputs ==
    {CloseSeries(shape, tail) :
        shape \in {"flat", "rise", "fall", "zig"},
        tail \in UNION {[1 .. n -> {-1, 0, 1}] : n \in 0 .. (MaxCloses - roll)}}

RsiFns == {"compute_rsi", "rsi_wilder", "rsi", "minute_features"}

\* the RSI the implementation fn gives closes; minute_features raises
\* below roll + 1 closes
RsiBy(fn, closes) ==
    CASE fn = "compute_rsi" -> compute_rsi(closes)
      [] fn = "rsi_wilder" -> rsi_wilder(closes)
      [] fn = "rsi" -> rsi(closes)
      [] OTHER -> IF Len(closes) < roll + 1 THEN None ELSE RsiOrDefault(closes, Len(closes))

\* run.out holds the value of each implementation applied so far
ApplyRsi ==
    /\ run.script = "rsi"
    /\ \E fn \in RsiFns \ DOMAIN run.out :
         run' = [run EXCEPT !.out = Put(run.out, fn, RsiBy(fn, run.closes))]
    /\ UNCHANGED <<call, fallback, idx, world, mpc, calls, part, built, exitStatus>>

(***************************************************************************)
(* The scripts, one per behaviour                                          *)
(***************************************************************************)
InitScripts ==
    /\ call = IdleCall
    /\ MainOff
    /\ \/ run \in {NewRun(sc, Universe) :
                      sc \in {"build_candidates", "make_training", "daily_price_filter"}}
       \/ run \in {NewRun("score_today_from_polygon", u) : u \in UniverseOrders}
       \/ run \in {[NewRun("daily_ai_score", Universe) EXCEPT !.i = NumTickers, !.rows = b] :
                      b \in RowListsFrom("daily", Universe, 1)}
       \/ run \in {[NewRun("score_today_from_csv", Universe) EXCEPT !.i = NumTickers, !.rows = b] :
                      b \in RowListsFrom("train", Universe, 1)}
       \/ run \in {[NewRun("score_rows", Universe) EXCEPT !.i = NumTickers, !.rows = b] :
                      b \in ScoreRowsInputs}
       \/ run \in {[script |-> "rsi", closes |-> c, out |-> <<>>] : c \in ClosesInputs}

NextScripts ==
    \/ BuildTicker \/ BuildFinish
    \/ ScoreTicker \/ ScoreFinish
    \/ TrainTicker \/ TrainFinish
    \/ PriceFilterTicker \/ DailyScoreAndWrite \/ CsvMain
    \/ ApplyScoreRows \/ ApplyRsi

SpecScripts == InitScripts /\ [][NextScripts]_vars

\* the per-ticker loops with a try/except: those of build_candidates and
\* score_today_from_polygon and the two of daily_ai_score
InitLoops ==
    \/ InitMain
    \/ /\ InitScripts
       /\ run.script \in {"build_candidates", "score_today_from_polygon",
                          "daily_price_filter"}
       /\ run.universe = Universe

NextLoops == NextMain \/ BuildTicker \/ ScoreTicker \/ PriceFilterTicker

SpecLoops == InitLoops /\ [][NextLoops]_vars

(***************************************************************************)
(* The per-ticker step of each script on one ticker, for every shape of    *)
(* the provider's data: previous closes that are not positive, few daily   *)
(* bars, pre-market minute bars, bars sent newest first, a paginated       *)
(* response.  run.of = the script, run.d and run.m = the provider's daily  *)
(* and minute data, run.last = the outcome of the step.                    *)
(***************************************************************************)
DAILY_FALLBACK == TRUE

\* daily_ai_score.main for ticker t: the price filter, then minute_features
\* and, when it raised, daily_features; r[1] .. r[6] the finished poly_get
\* calls of poly_prev_close, of minute_features (bars, /prev, daily_relvol)
\* and of daily_features (bars, daily_relvol)
DailyIter(t, r, d, m) ==
    LET pc == poly_prev_close(r[1], d)
        bars == MinuteBars(m)
        first == MinuteFirstOpen(bars)
        f == MinuteGapRsi(bars, PrevBars(d))
        g == DailyGapRsi(DailyBars(d), Today)
        rv == daily_relvol(DailyBars(d), Today)
        nMinute == IF r[2].pc = "raised" THEN -1 ELSE Len(bars)
        minuteOk == /\ r[2].pc # "raised" /\ first.ok
                    /\ r[3].pc # "raised" /\ f.ok
                    /\ r[4].pc # "raised" /\ rv.ok
        dailyOk == /\ DAILY_FALLBACK
                   /\ r[5].pc # "raised" /\ g.ok
                   /\ r[6].pc # "raised" /\ rv.ok
    IN  IF pc = None THEN Outcome("skip", <<>>, -1)
        ELSE IF ~(PRICE_MIN <= pc /\ pc <= PRICE_MAX) THEN Outcome("skip", <<>>, -1)
        ELSE IF minuteOk THEN Outcome("row", Row(t, Today, f.val, rv.val, "minute"), nMinute)
        ELSE IF dailyOk THEN Outcome("row", Row(t, Today, g.val, rv.val, "daily"), nMinute)
        ELSE Outcome("skip", <<>>, nMinute)

StepPatterns == ScriptPatterns \cup {"nil", "neg"}

StepDailyWorlds ==
    [known : {TRUE}, n : {0, 1, 2, roll + 1}, pat : StepPatterns, hasToday : BOOLEAN]

\* make_training asks for the session window with sort=asc; the other
\* scripts ask for the day and name no order
StepMinuteWorlds(of, d) ==
    [known : {TRUE}, n : MinuteLens, pat : {d.pat}, hasToday : {TRUE},
     pre : IF of = "make_training" THEN {0} ELSE {0, 2},
     order : IF of = "make_training" THEN {"asc"} ELSE {"asc", "desc"},
     pages : {1, 2}]

StepScripts == {"build_candidates", "score_today_from_polygon", "make_training", "daily_ai_score"}

NewStep(of, d, m) ==
    [script |-> "step", of |-> of, pc |-> "loop", d |-> d, m |-> m,
     last |-> Outcome("none", <<>>, -1)]

StepDone(o) == run' = [run EXCEPT !.pc = "done", !.last = o]

BuildStep ==
    /\ run.script = "step" /\ run.of = "build_candidates" /\ run.pc = "loop"
    /\ \E r1, r2, r3 \in Fetches("req") :
         StepDone(BuildIter(Universe[1], r1, r2, r3, run.d, run.m))
    /\ UNCHANGED <<call, fallback, idx, world, mpc, calls, part, built, exitStatus>>

ScoreStep ==
    /\ run.script = "step" /\ run.of = "score_today_from_polygon" /\ run.pc = "loop"
    /\ \E r1, r2, r3 \in Fetches("get_json") :
         StepDone(ScoreIter(Universe[1], r1, r2, r3, run.d, run.m))
    /\ UNCHANGED <<call, fallback, idx, world, mpc, calls, part, built, exitStatus>>

TrainStep ==
    /\ run.script = "step" /\ run.of = "make_training" /\ run.pc = "loop"
    /\ \E r1, r2 \in Fetches("api_get") :
         StepDone(TrainIter(Universe[1], Today, StoreAfter(NoStore, r1, run.d, Today), r2, run.m))
    /\ UNCHANGED <<call, fallback, idx, world, mpc, calls, part, built, exitStatus>>

DailyStep ==
    /\ run.script = "step" /\ run.of = "daily_ai_score" /\ run.pc = "loop"
    /\ \E r \in [1 .. 6 -> Fetches("poly_get")] :
         StepDone(DailyIter(Universe[1], r, run.d, run.m))
    /\ UNCHANGED <<call, fallback, idx, world, mpc, calls, part, built, exitStatus>>

InitSteps ==
    /\ call = IdleCall
    /\ MainOff
    /\ \E of \in StepScripts, d \in StepDailyWorlds :
         \E m \in StepMinuteWorlds(of, d) : run = NewStep(of, d, m)

NextSteps == BuildStep \/ ScoreStep \/ TrainStep \/ DailyStep

SpecSteps == InitSteps /\ [][NextSteps]_vars

(***************************************************************************)
(* The daily-bar cache of make_training_from_polygon: calls of             *)
(* prev_close_and_avgvol30 in any order (run.script = "cache_calls") and   *)
(* main over a date range of two days (run.script = "train_range").        *)
(* run.cache[k] = the cache entry of ticker universe[k], run.fetches[k] =  *)
(* the number of times daily_aggs was called, and the entry written, for   *)
(* that ticker.                                                            *)
(***************************************************************************)
\* the daily bars the provider holds for ticker universe[k]
CacheWorld(k) ==
    [known |-> TRUE, n |-> roll + 1, pat |-> IF k % 2 = 1 THEN "zig" ELSE "slide",
     hasToday |-> TRUE]

\* daterange_utc(start_date, end_date) for TRAIN_START = yesterday
TrainDays == <<Today - 1, Today>>

\* the days prev_close_and_avgvol30 may be asked about
CallDays == {Today - 2, Today - 1, Today}

\* rng_key != want_key: the call fetches and overwrites the entry
Refetch(store, day) == store.range_key # RangeKey(day)

\* one call prev_close_and_avgvol30(universe[k], day, cache)
CacheCall ==
    /\ run.script = "cache_calls"
    /\ \E k \in 1 .. NumTickers, day \in CallDays, r \in Fetches("api_get") :
         LET store == StoreAfter(run.cache[k], r, CacheWorld(k), day)
         IN  run' = [run EXCEPT !.cache[k] = store,
                                !.last = [k |-> k, day |-> day,
                                          fetched |-> Refetch(run.cache[k], day),
                                          body |-> r.result = "body",
                                          result |-> prev_close_and_avgvol30(store)]]
    /\ UNCHANGED <<call, fallback, idx, world, mpc, calls, part, built, exitStatus>>

\* _ = prev_close_and_avgvol30(ticker, start_date, cache_daily)
RangeWarm ==
    /\ run.script = "train_range" /\ run.pc = "loop"
    /\ run.i < Len(run.universe) /\ run.j = 0
    /\ \E r \in Fetches("api_get") :
         LET k == run.i + 1
         IN  run' = [run EXCEPT !.cache[k] = StoreAfter(run.cache[k], r, CacheWorld(k), TrainDays[1]),
                                !.fetches[k] = @ + (IF Refetch(run.cache[k], TrainDays[1]) THEN 1 ELSE 0),
                                !.j = 1]
    /\ UNCHANGED <<call, fallback, idx, world, mpc, calls, part, built, exitStatus>>

\* for day in daterange_utc(start_date, end_date): the body of the loop
RangeDay ==
    /\ run.script = "train_range" /\ run.pc = "loop"
    /\ run.i < Len(run.universe) /\ run.j >= 1
    /\ \E r1, r2 \in Fetches("api_get") :
         \E m \in ScriptMinuteWorlds(CacheWorld(run.i + 1)) :
           LET k == run.i + 1
               day == TrainDays[run.j]
               store == StoreAfter(run.cache[k], r1, CacheWorld(k), day)
               o == TrainIter(run.universe[k], day, store, r2, m)
           IN  run' = [run EXCEPT !.cache[k] = store,
                                  !.fetches[k] = @ + (IF Refetch(run.cache[k], day) THEN 1 ELSE 0),
                                  !.rows = IF o.kind = "row" THEN Append(@, o.row) ELSE @,
                                  !.last = o,
                                  !.i = IF run.j = Len(TrainDays) THEN @ + 1 ELSE @,
                                  !.j = IF run.j = Len(TrainDays) THEN 0 ELSE @ + 1]
    /\ UNCHANGED <<call, fallback, idx, world, mpc, calls, part, built, exitStatus>>

\* the rows are written sorted by (Date, Ticker), the header alone when
\* there are none
RangeFinish ==
    /\ run.script = "train_range" /\ run.pc = "loop" /\ run.i = Len(run.universe)
    /\ run' = Exit(run, 0, TRUE, SortByDateTicker(run.rows))
    /\ UNCHANGED <<call, fallback, idx, world, mpc, calls, part, built, exitStatus>>

InitCache ==
    /\ call = IdleCall
    /\ MainOff
    /\ \/ run = [script |-> "cache_calls", cache |-> [k \in 1 .. NumTickers |-> NoStore],
                  last |-> [k |-> 0, day |-> 0, fetched |-> FALSE, body |-> FALSE,
                            result |-> <<None, <<0, 0>>>>]]
       \/ run = NewRun("train_range", Universe)
                   @@ [j |-> 0, fetches |-> [k \in 1 .. NumTickers |-> 0]]

NextCache == CacheCall \/ RangeWarm \/ RangeDay \/ RangeFinish

SpecCache == InitCache /\ [][NextCache]_vars

(***************************************************************************)
(* The universe: resolve_universe of score_today_from_polygon and          *)
(* load_candidates of daily_ai_score on lists that may name a ticker more  *)
(* than once, followed by the loop over the resolved tickers.  MAX_TICKERS *)
(* is the value of the environment variable of that name.                  *)
(***************************************************************************)
UNIVERSE_SOURCES == {"FINVIZ_FILE", "EXPLICIT"}

DefaultUniverse == <<"AAPL", "TSLA", "AMD", "NVDA">>

\* xs[:n]
Take(xs, n) == SubSeq(xs, 1, Min(n, Len(xs)))

\* list(dict.fromkeys(xs)): the first occurrence of each ticker, in order
RECURSIVE Dedup(_)
Dedup(xs) ==
    IF xs = <<>> THEN <<>>
    ELSE LET rest == Dedup(SubSeq(xs, 1, Len(xs) - 1))
         IN  IF \E k \in 1 .. Len(rest) : rest[k] = xs[Len(xs)] THEN rest
             ELSE Append(rest, xs[Len(xs)])

\* the lists of at most n tickers a file or an environment variable may hold
Listings(n) == UNION {[1 .. k -> {Universe[j] : j \in 1 .. NumTickers}] : k \in 0 .. n}

\* resolve_universe: the Finviz file, else the UNIVERSE variable, else the
\* default list, cut to MAX_TICKERS
resolve_universe(source, finviz, explicit) ==
    IF source = "FINVIZ_FILE" /\ finviz # <<>> THEN Take(finviz, MAX_TICKERS)
    ELSE IF explicit # <<>> THEN Take(explicit, MAX_TICKERS)
    ELSE Take(DefaultUniverse, MAX_TICKERS)

\* load_candidates: CANDIDATE_TICKERS, else the ticker file, without
\* repetitions and cut to MAX_TICKERS
load_candidates(env, file) ==
    IF env # <<>> THEN Take(Dedup(env), MAX_TICKERS) ELSE Take(Dedup(file), MAX_TICKERS)

\* score_today_from_polygon.main: tickers = resolve_universe()
ResolveUniverse ==
    /\ run.script = "score_today_from_polygon" /\ run.pc = "resolve"
    /\ run' = NewRun("score_today_from_polygon",
                     resolve_universe(run.source, run.finviz, run.explicit))
    /\ UNCHANGED <<call, fallback, idx, world, mpc, calls, part, built, exitStatus>>

\* daily_ai_score.main: tickers = load_candidates(); sys.exit(1) without
\* tickers, else on to the price filter over tickers[:MAX_TICKERS]
LoadCandidates ==
    /\ run.script = "daily_price_filter" /\ run.pc = "resolve"
    /\ LET tickers == load_candidates(run.env, run.file)
       IN  run' = IF tickers = <<>> THEN Exit(NewRun("daily_price_filter", <<>>), 1, FALSE, <<>>)
                  ELSE NewRun("daily_price_filter", Take(tickers, MAX_TICKERS))
    /\ UNCHANGED <<call, fallback, idx, world, mpc, calls, part, built, exitStatus>>

InitUniverse ==
    /\ call = IdleCall
    /\ MainOff
    /\ \/ run \in [script : {"score_today_from_polygon"}, pc : {"resolve"},
                     source : UNIVERSE_SOURCES,
                     finviz : Listings(MAX_TICKERS + 1), explicit : Listings(1)]
       \/ run \in [script : {"daily_price_filter"}, pc : {"resolve"},
                     env : Listings(MAX_TICKERS + 1), file : Listings(1)]

NextUniverse ==
    \/ ResolveUniverse \/ ScoreTicker \/ ScoreFinish
    \/ LoadCandidates \/ PriceFilterTicker

SpecUniverse == InitUniverse /\ [][NextUniverse]_vars

(***************************************************************************)
(* Properties of the fetch clients (SpecFetch)                             *)
(***************************************************************************)
\* the provider answered 429, 429, 429 and then a 200 with a JSON body
Three429Then200 ==
    /\ call.fn \in {"req", "poly_get", "api_get"}
    /\ call.lead429 = 3
    /\ call.attempt = 4
    /\ call.last.status = 200
    /\ call.last.json

\* C1 as stated: after 429, 429, 429, 200 every client has issued exactly 4
\* requests, slept exactly 3 times, each sleep strictly longer than the one
\* before unless at the cap, and returned the body.
C1_Original ==
    Three429Then200 =>
        /\ call.attempt = 4
        /\ call.nSleeps = 3
        /\ call.mono
        /\ call.pc = "returned" /\ call.result = "body"

\* C1 amended: after 429, 429, 429, 200 every client has issued exactly 4
\* requests, slept exactly 3 times and returned the body; the sleeps are
\* strictly increasing in req and poly_get (api_get's jittered or
\* Retry-After delays need not increase).
C1_BackoffThenBody ==
    Three429Then200 =>
        /\ call.attempt = 4
        /\ call.nSleeps = 3
        /\ call.pc = "returned" /\ call.result = "body"
        /\ (call.fn \in {"req", "poly_get"} => call.mono)

C1_Witness ==
    /\ Three429Then200
    /\ call.fn = "poly_get"
    /\ call.nSleeps = 3
    /\ call.lastSleep = 3200
    /\ call.pc = "returned"

\* every response of the call was a 429 and the attempt limit is reached
All429ToLimit ==
    /\ call.fn \in {"req", "poly_get", "api_get"}
    /\ call.attempt = Limit(call.fn)
    /\ call.lead429 = call.attempt

\* C2 as stated: when every attempt up to the limit is answered 429, the
\* client stops and raises an error to its caller.
C2_Original == All429ToLimit => call.pc = "raised"

\* C2 amended: when every attempt up to the limit is answered 429, the client
\* stops retrying; req and poly_get raise "Too many retries", api_get returns
\* None, which minute_aggs_one_day and daily_aggs hand on as an empty list.
C2_ExhaustedStops ==
    All429ToLimit =>
        /\ call.pc # "running"
        /\ call.fn \in {"req", "poly_get"} =>
               call.pc = "raised" /\ call.exc = <<"Too many retries", 0>>
        /\ call.fn = "api_get" =>
               /\ call.pc = "returned" /\ call.result = "None"
               /\ AggsResults(call.result, <<"bar">>) = <<>>

C2_Witness ==
    /\ All429ToLimit
    /\ call.fn = "api_get"
    /\ call.nSleeps = MAX_RETRIES - 1
    /\ call.pc = "returned"

\* C3: after a 400, 401, 403 or 404 the call is over (no further request) and
\* that response was followed by no sleep.
C3_FatalNoRetry ==
    (call.fn \in Clients /\ call.last.status \in {400, 401, 403, 404}) =>
        /\ call.pc \in {"raised", "returned"}
        /\ call.nSleeps = call.attempt - 1

\* C4: after a 429, 502, 503 or 504, while attempts remain, the client has
\* slept and goes on to the next request.
C4_RetryableRetried ==
    (call.fn \in Clients /\ call.last.status \in {429, 502, 503, 504}
       /\ call.attempt < Limit(call.fn)) =>
        /\ call.pc = "running"
        /\ call.nSleeps = call.attempt

\* C5: api_get never issues more than MAX_RETRIES requests, and the call is
\* over once the MAX_RETRIES-th request has been answered, whatever the
\* responses were.
C5_ApiGetBounded ==
    call.fn = "api_get" =>
        /\ call.attempt <= MAX_RETRIES
        /\ call.attempt = MAX_RETRIES => call.pc = "returned"

C5_Witness ==
    /\ call.fn = "api_get"
    /\ call.attempt = MAX_RETRIES
    /\ call.last.status = 500
    /\ call.lead429 = 2
    /\ call.pc = "returned"

\* C6: no sleep of api_get is longer than MAX_SLEEP.
C6_SleepCapped == call.fn = "api_get" => call.lastSleep <= MAX_SLEEP

(***************************************************************************)
(* Properties of the session resolver in daily_ai_score.main (SpecMain)    *)
(***************************************************************************)
\* the iteration of ticker TickerNames[idx] is over
IterDone ==
    /\ idx >= 1
    /\ calls # <<>>
    /\ calls[Len(calls)].exc # Pending

RowsOf(t) == SelectSeq(built, LAMBDA r : r.ticker = t)

LastTicker == TickerNames[idx]

\* the exception came out of poly_get, not out of the feature computation
FetchFailure(e) ==
    e[1] \in {"Polygon error", "Too many retries", "RequestException", "JSONDecodeError"}

\* C7: every ticker ends with one 'minute' row, one 'daily' row or no row;
\* daily_features is entered only after minute_features raised and only
\* with DAILY_FALLBACK on; after a successful minute_features it is never
\* entered; with DAILY_FALLBACK off a minute failure ends the ticker
\* without a row.
C7_ResolverOutcomes ==
    /\ \A i \in 1 .. idx :
         /\ Len(RowsOf(TickerNames[i])) <= 1
         /\ \A k \in 1 .. Len(RowsOf(TickerNames[i])) :
              RowsOf(TickerNames[i])[k].mode \in {"minute", "daily"}
    /\ Len(calls) <= 2
    /\ calls # <<>> => calls[1].fn = "minute_features"
    /\ Len(calls) = 2 =>
         /\ calls[2].fn = "daily_features"
         /\ fallback
         /\ calls[1].exc \notin {NoExc, Pending}
    /\ IterDone =>
         /\ calls[1].exc = NoExc =>
              /\ Len(calls) = 1
              /\ RowsOf(LastTicker) # <<>> /\ RowsOf(LastTicker)[1].mode = "minute"
         /\ (calls[1].exc # NoExc /\ ~fallback) =>
              Len(calls) = 1 /\ RowsOf(LastTicker) = <<>>
         /\ (calls[1].exc # NoExc /\ fallback) =>
              /\ Len(calls) = 2
              /\ IF calls[2].exc = NoExc
                 THEN RowsOf(LastTicker) # <<>> /\ RowsOf(LastTicker)[1].mode = "daily"
                 ELSE RowsOf(LastTicker) = <<>>

C7_Witness ==
    /\ IterDone
    /\ fallback
    /\ idx = 2
    /\ calls[1].exc = <<"not enough minutes for rsi", 0>>
    /\ Len(calls) = 2 /\ calls[2].exc = NoExc
    /\ Len(built) = 2
    /\ built[1].mode = "minute" /\ built[2].mode = "daily"

\* the minute-bar request of the current ticker ended in a 401 or 403
MinuteFetchAuthError ==
    /\ calls # <<>>
    /\ calls[1].exc[1] = "Polygon error"
    /\ calls[1].exc[2] \in {401, 403}
    /\ ~world.minute.known

\* C8 as stated: after a 401/403 on the minute-bar fetch the ticker is
\* finished; daily_features is not entered.
C8_Original == MinuteFetchAuthError => Len(calls) = 1

\* C8 amended: a 401/403 on the minute-bar fetch is handled like every other
\* exception of minute_features: with DAILY_FALLBACK on, daily_features is
\* entered for that ticker; only with DAILY_FALLBACK off is the ticker
\* finished without a daily attempt.
C8_AuthErrorFallsBack ==
    MinuteFetchAuthError =>
        IF fallback
        THEN Len(calls) = 2 /\ calls[2].fn = "daily_features"
        ELSE Len(calls) = 1 /\ IterDone /\ RowsOf(LastTicker) = <<>>

C8_Witness ==
    /\ MinuteFetchAuthError
    /\ calls[1].exc[2] = 403
    /\ IterDone
    /\ Len(calls) = 2 /\ calls[2].exc = NoExc
    /\ RowsOf(LastTicker) # <<>> /\ RowsOf(LastTicker)[1].mode = "daily"

\* the provider has no minute bar for the ticker and served its daily bars
ZeroMinuteBars ==
    /\ IterDone
    /\ fallback
    /\ world.minute.known /\ world.minute.n = 0
    /\ world.daily.known
    /\ ~FetchFailure(calls[Len(calls)].exc)

\* C9: with DAILY_FALLBACK on, zero minute bars and at least roll + 1 daily
\* bars, today's included, give a 'daily' row with gap_pct, rsi14m and rvol
\* all present; zero minute bars and zero daily bars give no row, and the
\* run ends only after the last ticker.
C9_DailyFallbackRow ==
    ZeroMinuteBars =>
        /\ (world.daily.n >= roll + 1 /\ world.daily.hasToday) =>
             /\ Len(RowsOf(LastTicker)) = 1
             /\ built[Len(built)] = RowsOf(LastTicker)[1]
             /\ RowsOf(LastTicker)[1].mode = "daily"
             /\ RowsOf(LastTicker)[1].gap_pct # NaN
             /\ RowsOf(LastTicker)[1].rsi14m # NaN
             /\ RowsOf(LastTicker)[1].rvol # NaN
        /\ world.daily.n = 0 =>
             /\ RowsOf(LastTicker) = <<>>
             /\ calls[2].exc = <<"no daily data", 0>>
             /\ mpc \in {"loop", "score", "exited"}
             /\ mpc # "loop" => idx = NumTickers

C9_Witness ==
    /\ ZeroMinuteBars
    /\ world.daily.n >= roll + 1 /\ world.daily.hasToday
    /\ world.daily.pat = "flat"
    /\ idx = 2
    /\ Len(built) = 1
    /\ built[1].ticker = TickerNames[2] /\ built[1].mode = "daily"
    /\ built[1].rsi14m = 50 * SCALE

\* C10: with fewer than roll + 1 daily closes up to and including the
\* scored day, no 'daily' row is produced for the ticker.
C10_DailyNeedsFifteen ==
    (IterDone /\ world.daily.known /\ world.daily.n < roll + 1) =>
        \A k \in 1 .. Len(RowsOf(LastTicker)) : RowsOf(LastTicker)[k].mode # "daily"

(***************************************************************************)
(* Properties of the scripts (SpecScripts, SpecLoops)                      *)
(***************************************************************************)
Prefix(a, b) == Len(a) <= Len(b) /\ SubSeq(b, 1, Len(a)) = a

LoopScripts == {"build_candidates", "score_today_from_polygon", "daily_price_filter"}

\* a step taken inside a per-ticker loop stays in the loop, moves to the
\* next ticker at most, and keeps the rows built so far
LoopStepKeepsGoing ==
    /\ (run.script \in LoopScripts /\ run.pc = "loop" /\ run.i < Len(run.universe))
         => /\ run'.pc = "loop"
            /\ run'.i = run.i + 1
            /\ Prefix(run.rows, run'.rows)
    /\ (mpc # "off" /\ idx < NumTickers)
         => /\ mpc' \notin {"exited", "score"}
            /\ idx' \in {idx, idx + 1}
            /\ Prefix(built, built')

\* C11: in the per-ticker loops of build_candidates, daily_ai_score and
\* score_today_from_polygon an exception or a skip for one ticker never
\* stops the loop: the next ticker is attempted and the rows of the earlier
\* tickers are kept.
C11_PerTickerIsolation == [][LoopStepKeepsGoing]_vars

\* the last ticker raised an exception, the rows of all the others are there
C11_Witness ==
    /\ run.script \in {"build_candidates", "score_today_from_polygon"}
    /\ run.pc = "loop" /\ run.i = NumTickers
    /\ run.last.kind = "exc"
    /\ Len(run.rows) = NumTickers - 1

MainScripts ==
    {"build_candidates", "daily_ai_score", "score_today_from_polygon", "make_training"}

\* has the row its three feature values?
WellFormed(r) == ~Missing(r.gap_pct) /\ ~Missing(r.rvol) /\ ~Missing(r.rsi14m)

\* a main has ended without one usable row
EndedWithoutRows ==
    /\ run.script \in MainScripts /\ run.pc = "done"
    /\ IF run.script = "score_today_from_polygon"
       THEN \A k \in 1 .. Len(run.rows) : ~WellFormed(run.rows[k])
       ELSE run.rows = <<>>

DailyEndedWithRows ==
    run.script = "daily_ai_score" /\ run.pc = "done" /\ run.rows # <<>>

\* C13 as stated: with at least one row built, daily_ai_score ends with
\* status 0 and writes the scored output, also without a fitted model.
C13_Original == DailyEndedWithRows => run.status = 0 /\ run.wrote

\* C13: with at least one row built, daily_ai_score ends with status 0 and
\* writes one scored row per built row when the model loads and scores them;
\* when the model file is missing or the model raises it exits with status
\* 3 and writes nothing (it has no heuristic).
C13_ScoredOrStatusThree ==
    DailyEndedWithRows =>
        IF run.model \in {"proba", "decision"}
        THEN run.status = 0 /\ run.wrote /\ Len(run.out) = Len(run.rows)
        ELSE run.status = 3 /\ ~run.wrote

\* rows were built and there is no model file
C13_Witness == DailyEndedWithRows /\ run.model = "none" /\ run.status = 3

\* the three feature values of a row of the given script
Features(script, r) ==
    CASE script = "build_candidates" ->
           [gap_pct |-> r.GapPct, rvol |-> r.RelVol, rsi14m |-> r.RSI14m]
      [] script = "make_training" ->
           [gap_pct |-> r.GapPctPoly, rvol |-> r.RelVolPoly, rsi14m |-> r.RSI14m]
      [] OTHER -> [gap_pct |-> r.gap_pct, rvol |-> r.rvol, rsi14m |-> r.rsi14m]

InRange(x, lo, hi) == Missing(x) \/ (lo <= x /\ x <= hi)

Clamped(f) ==
    /\ InRange(f.gap_pct, -40 * SCALE, 40 * SCALE)
    /\ InRange(f.rsi14m, 0, 100 * SCALE)
    /\ InRange(f.rvol, 0, 15 * SCALE)

\* the scripts whose loop appends feature rows
RowScripts ==
    {"build_candidates", "daily_ai_score", "score_today_from_polygon", "make_training"}

\* C14: every feature row handed to the scorer or written to an output has
\* gap_pct in [-40, 40], rsi in [0, 100] and rel_vol in [0, 15], in every
\* script that produces rows.
C14_RowsClamped ==
    run.script \in RowScripts =>
        /\ \A k \in 1 .. Len(run.rows) : Clamped(Features(run.script, run.rows[k]))
        /\ \A k \in 1 .. Len(run.out) : Clamped(Features(run.script, run.out[k]))

\* the rows of a list that have all three feature values
Complete(rows) == SelectSeq(rows, WellFormed)

\* the row without the fields score_rows adds
Bare(r) == [x \in DOMAIN r \ {"score", "rank"} |-> r[x]]

\* score_rows of score_today_from_polygon has returned
ScoreRowsReturned ==
    run.script \in {"score_rows", "score_today_from_polygon"} /\ run.pc = "done"

\* what score_rows returns is, up to order, the complete rows it was given
ReturnsTheCompleteRows ==
    ScoreRowsReturned =>
        /\ Len(run.out) = Len(Complete(run.rows))
        /\ \A k \in 1 .. Len(run.out) :
             /\ WellFormed(run.out[k])
             /\ \E j \in 1 .. Len(run.rows) : Bare(run.rows[j]) = Bare(run.out[k])
        /\ \A j \in 1 .. Len(run.rows) :
             WellFormed(run.rows[j]) =>
                 \E k \in 1 .. Len(run.out) : Bare(run.rows[j]) = Bare(run.out[k])

\* no row of a written output has an empty feature field
NoEmptyFieldWritten ==
    (run.script \in RowScripts \cup {"score_today_from_csv"} /\ run.wrote) =>
        \A k \in 1 .. Len(run.out) : WellFormed(Features(run.script, run.out[k]))

\* C15 as stated: score_rows returns exactly the input rows that have all
\* three values, and no script writes a row with an empty feature field.
C15_Original == ReturnsTheCompleteRows /\ NoEmptyFieldWritten

\* C15: score_rows of score_today_from_polygon returns exactly the input
\* rows that have all three values, and score_today_from_csv scores and
\* writes only rows with all three values; build_candidates and
\* make_training do write rows whose RelVol or RSI14m field is empty.
C15_PartialRowsDropped ==
    /\ ReturnsTheCompleteRows
    /\ (run.script \in {"score_today_from_polygon", "score_today_from_csv"}) => NoEmptyFieldWritten

\* score_rows was given a row without rvol and returned the others
C15_Witness ==
    /\ ScoreRowsReturned
    /\ Len(run.rows) = NumTickers
    /\ Len(run.out) = NumTickers - 1

\* C16: score_rows of score_today_from_polygon returns rows whose ranks
\* are 1, 2, ..., n in list order with the score non-increasing as the rank
\* grows, whatever rank an input row carried.
C16_RanksAfterSort ==
    ScoreRowsReturned =>
        \A k \in 1 .. Len(run.out) :
            /\ run.out[k].rank = k
            /\ k < Len(run.out) => run.out[k].score >= run.out[k + 1].score

\* rows carrying an old rank were scored differently and reordered
C16_Witness ==
    /\ run.script = "score_rows" /\ run.pc = "done"
    /\ Len(run.out) = NumTickers
    /\ \A k \in 1 .. Len(run.rows) : "rank" \in DOMAIN run.rows[k] /\ run.rows[k].rank = 9
    /\ run.out[1].score > run.out[NumTickers].score
    /\ run.out[1].ticker = run.rows[NumTickers].ticker

\* the score field of a ranked output row
ScoreField(r) == IF "ai_score" \in DOMAIN r THEN r.ai_score ELSE r.score

\* the ticker field of a ranked output row
TickerField(r) == IF "Ticker" \in DOMAIN r THEN r.Ticker ELSE r.ticker

\* a ranked output has been produced
RankedOutput ==
    /\ run.script \in {"score_rows", "score_today_from_polygon", "daily_ai_score",
                       "score_today_from_csv"}
    /\ run.pc = "done"

\* C17: in the ranked output two rows with equal score are in ascending
\* lexical order of ticker, whatever the order of the universe.
C17_TiesByTicker ==
    RankedOutput =>
        \A a, b \in 1 .. Len(run.out) :
            (a < b /\ ScoreField(run.out[a]) = ScoreField(run.out[b]))
                => TickerRank(TickerField(run.out[a])) < TickerRank(TickerField(run.out[b]))

\* C18: every score written to an output lies in [0, 1], from a model's
\* probability, a raw decision value, the heuristic or the defensive path.
C18_ScoreInUnitInterval ==
    (RankedOutput /\ run.script # "score_rows" /\ run.wrote) =>
        \A k \in 1 .. Len(run.out) :
            0 <= ScoreField(run.out[k]) /\ ScoreField(run.out[k]) <= ScoreScale

\* the average loss the implementation fn computes for closes is exactly 0
AvgLossZero(fn, closes) ==
    IF fn = "minute_features"
    THEN Sum(SubSeq(Down(closes), Len(closes) - roll + 1, Len(closes))) = 0
    ELSE WilderNum(Losses(closes), Len(closes) - 1) = 0

\* C19: for every close sequence of at least 15 values each RSI
\* implementation returns a value in [0, 100], and exactly 100 whenever its
\* average loss is exactly 0, flat prices included.
C19_RsiRangeAndHundred ==
    (run.script = "rsi" /\ Len(run.closes) >= roll + 1) =>
        \A fn \in DOMAIN run.out :
            /\ 0 <= run.out[fn] /\ run.out[fn] <= 100 * SCALE
            /\ AvgLossZero(fn, run.closes) => run.out[fn] = 100 * SCALE

\* the latest iteration received between 1 and 14 minute bars
FewMinuteCloses ==
    /\ run.script \in {"build_candidates", "score_today_from_polygon", "make_training"}
    /\ run.last.nMinute >= 1 /\ run.last.nMinute < roll + 1

\* C20 as stated: with fewer than 15 minute closes no feature row is
\* appended for the ticker, in any script.
C20_Original == FewMinuteCloses => run.last.kind # "row"

\* C20: with fewer than 15 minute closes score_today_from_polygon appends no
\* row for the ticker, while build_candidates and make_training append the
\* row with an empty RSI14m field.
C20_ShortSeries ==
    FewMinuteCloses =>
        IF run.script = "score_today_from_polygon" THEN run.last.kind # "row"
        ELSE run.last.kind = "row" => run.last.row.RSI14m = Blank

\* make_training appended a row for a day with 14 minute bars
C20_Witness ==
    /\ FewMinuteCloses /\ run.script = "make_training"
    /\ run.last.kind = "row" /\ run.rows # <<>>

(***************************************************************************)
(* Properties of the per-ticker steps (SpecSteps)                          *)
(***************************************************************************)
StepEnded == run.script = "step" /\ run.pc = "done"

\* the provider has no bar before the day, or its close is zero or negative
NoUsablePrevClose == PrevBars(run.d) = <<>> \/ PrevBars(run.d)[1].c <= 0

\* C21: for a ticker whose previous close is missing, zero or negative the
\* step of every script ends without a row, as a skip or with an exception
\* the loop caught, in minute and in daily mode
C21_NoRowWithoutPrevClose ==
    (StepEnded /\ NoUsablePrevClose) => run.last.kind \in {"skip", "exc"}

\* daily_ai_score met a negative previous close with fifteen minute and
\* daily bars at hand, and skipped the ticker
C21_Witness ==
    /\ StepEnded /\ run.of = "daily_ai_score"
    /\ run.d.pat = "neg" /\ run.d.n = roll + 1 /\ run.d.hasToday
    /\ run.m.n = roll + 1 /\ run.m.pre = 0 /\ run.m.pages = 1
    /\ run.last.kind = "skip"

\* the provider sent the minute bars of the regular session only, oldest
\* first and in one page
PlainMinutes == run.m.pre = 0 /\ run.m.order = "asc" /\ run.m.pages = 1

\* the daily bars before the day of the run, oldest first
PriorDaily(d) == SelectSeq(SortByT(DailyBars(d)), LAMBDA b : tdate(b.t) < Today)

\* the volumes of the up to 30 daily bars before the day of the run
PriorVols(d) ==
    LET prior == LastN(PriorDaily(d), 30)
    IN  [k \in 1 .. Len(prior) |-> prior[k].v]

\* the volume of the day so far as the script counts it: daily_ai_score
\* reads the day's daily bar, the others add up the minute bars
TodayVolume(of, d, m) ==
    IF of = "daily_ai_score"
    THEN LET today == SelectSeq(DailyBars(d), LAMBDA b : tdate(b.t) = Today)
         IN  today[Len(today)].v
    ELSE Sum([k \in 1 .. Len(MinuteBars(m)) |-> MinuteBars(m)[k].v])

\* the relative volume of the script on the baseline vols
RelVolOn(of, vol, vols) ==
    CASE of = "score_today_from_polygon" -> ExpectedRvol(vol, vols)
      [] of = "daily_ai_score" -> Clip((vol * Len(vols) * SCALE) \div Sum(vols), 0, 15 * SCALE)
      [] OTHER -> (vol * Len(vols) * SCALE) \div Sum(vols)

StepRow == StepEnded /\ run.last.kind = "row"

\* C22: the relative volume of a row is the day's volume over the mean of
\* the up to 30 daily volumes before the day; the day's own daily bar is not
\* in the baseline, in every script.
C22_BaselineBeforeSession ==
    (StepRow /\ PlainMinutes /\ Sum(PriorVols(run.d)) > 0) =>
        Features(run.of, run.last.row).rvol
            = RelVolOn(run.of, TodayVolume(run.of, run.d, run.m), PriorVols(run.d))

\* C23: with fewer than 5 daily bars before the day no numeric relative
\* volume is produced for the ticker, no default either.
C23_FewPriorDaysNoRelVol ==
    (StepRow /\ Len(PriorDaily(run.d)) < 5) => Missing(Features(run.of, run.last.row).rvol)

\* the outcome of the step of script of when every request is answered 200
OkOutcome(of, d, m) ==
    CASE of = "build_candidates" ->
           BuildIter(Universe[1], OkFetch("req"), OkFetch("req"), OkFetch("req"), d, m)
      [] of = "score_today_from_polygon" ->
           ScoreIter(Universe[1], OkFetch("get_json"), OkFetch("get_json"), OkFetch("get_json"), d, m)
      [] of = "make_training" ->
           TrainIter(Universe[1], Today, StoreAfter(NoStore, OkFetch("api_get"), d, Today),
                     OkFetch("api_get"), m)
      [] OTHER -> DailyIter(Universe[1], [k \in 1 .. 6 |-> OkFetch("poly_get")], d, m)

\* a row built from the minute bars
MinuteRow == StepRow /\ (run.of = "daily_ai_score" => run.last.row.mode = "minute")

\* C24: the features of a row do not depend on the order the provider sent
\* the minute bars in: they are those of the bars taken oldest first, the
\* gap from the open of the earliest bar, the RSI over the closes in time
\* order, in every script.
C24_SortedBeforeFeatures ==
    (MinuteRow /\ run.m.pre = 0 /\ run.m.pages = 1) =>
        run.last.row = OkOutcome(run.of, run.d, [run.m EXCEPT !.order = "asc"]).row

\* C25: no bar from before the session open contributes to the features of
\* a minute-mode row: gap, RSI and volume are those of the bars of the
\* regular session alone.
C25_SessionWindowOnly ==
    (MinuteRow /\ run.m.order = "asc" /\ run.m.pages = 1) =>
        run.last.row = OkOutcome(run.of, run.d, [run.m EXCEPT !.pre = 0]).row

\* C26: the caller of the minute fetch receives the bars of all pages: when
\* the response carries a continuation the number of bars the step works on
\* is still that of all the bars the provider holds.
C26_AllPagesReceived ==
    (StepEnded /\ run.last.nMinute >= 0 /\ run.m.pre = 0 /\ run.m.order = "asc") =>
        run.last.nMinute = Len(AllMinuteBars(run.m))

(***************************************************************************)
(* Properties of the daily-bar cache (SpecCache)                           *)
(***************************************************************************)
\* C27: during one run of main the daily bars of a ticker are fetched and
\* its cache entry written at most once; the calls for the later days of
\* the range read the stored bars.
C27_WrittenOncePerTicker ==
    run.script = "train_range" => \A k \in 1 .. NumTickers : run.fetches[k] <= 1

\* the daily bars of ticker universe[k] that end before day, newest first
BarsBefore(k, day) ==
    Reverse(SelectSeq(DailyBars(CacheWorld(k)), LAMBDA b : tdate(b.t) < day))

\* the previous close and the mean, as <<sum, count>>, of the up to 30
\* latest volumes of bars, newest first
CloseAndMean(bars) ==
    LET take == SubSeq(bars, 1, Min(30, Len(bars)))
    IN  <<bars[1].c, <<Sum([k \in 1 .. Len(take) |-> take[k].v]), Len(take)>>>>

\* C28: whatever calls of prev_close_and_avgvol30 came before on the same
\* cache, a call for a ticker and a day returns the previous close and the
\* mean volume of that ticker's daily bars before that day; it returns
\* (None, None) only when the request for exactly these bars, made by this
\* call or by an earlier one, did not return them.
C28_CacheNeverStale ==
    (run.script = "cache_calls" /\ run.last.k # 0) =>
        \/ run.last.result = CloseAndMean(BarsBefore(run.last.k, run.last.day))
        \/ /\ run.last.result = <<None, <<0, 0>>>>
           /\ ~(run.last.fetched /\ run.last.body)

\* a call was served from the ticker's cache entry while the entry of
\* another ticker holds the bars of another day
C28_Witness ==
    /\ run.script = "cache_calls" /\ run.last.k # 0
    /\ ~run.last.fetched /\ run.last.result[1] # None
    /\ \E k \in 1 .. NumTickers :
         /\ k # run.last.k
         /\ run.cache[k].range_key \notin {<<>>, RangeKey(run.last.day)}
         /\ run.cache[k].dailies # <<>>

(***************************************************************************)
(* Properties of the RSI implementations and of the universe               *)
(***************************************************************************)
\* the recurrence on closes: the means of the first roll gains and losses,
\* smoothed over every later difference, 100 when the average loss is 0
WilderRsi(closes) ==
    LET n == Len(closes) - 1
        avg_gain == WilderNum(Gains(closes), n)
        avg_loss == WilderNum(Losses(closes), n)
    IN  IF avg_loss = 0 THEN 100 * SCALE ELSE RsiOf(avg_gain, avg_loss)

\* C29: on a list of at least 15 closes rsi, rsi_wilder and compute_rsi
\* return the same value, that of the Wilder recurrence.
C29_SameRsi ==
    (run.script = "rsi" /\ Len(run.closes) >= roll + 1) =>
        \A fn \in {"rsi", "rsi_wilder", "compute_rsi"} \cap DOMAIN run.out :
            run.out[fn] = WilderRsi(run.closes)

Distinct(xs) == \A a, b \in 1 .. Len(xs) : a # b => xs[a] # xs[b]

\* C30: the ranked output holds at most one row per ticker, also when the
\* source of the universe names a ticker more than once, and no more than
\* MAX_TICKERS tickers are processed.
C30_OneRowPerTicker ==
    /\ (run.script = "score_today_from_polygon" /\ run.pc = "done")
         => Distinct([k \in 1 .. Len(run.out) |-> run.out[k].ticker])
    /\ (run.script = "daily_price_filter" /\ run.pc \in {"loop", "done"})
         => Distinct(run.rows)
    /\ (run.script \in {"score_today_from_polygon", "daily_price_filter"}
          /\ run.pc \in {"loop", "done"})
         => run.i <= MAX_TICKERS /\ Len(run.universe) <= MAX_TICKERS

====
